---- MODULE Spec2Model ----
(***************************************************************************)
(* TickClick booking orchestrator: the session state of src/agent/index.ts *)
(* (handleMessage, executePendingBooking), the execute-booking route and   *)
(* the page client of src/app/page.tsx that drives them.                   *)
(***************************************************************************)
EXTENDS Integers, Sequences, FiniteSets, TLC

\* undefined / null of the TypeScript source: of a string, of an object,
\* and of the attendeeEmails array
None == "none"
Null == [null |-> TRUE]
NoEmails == {"undefined"}

----------------------------------------------------------------------------
\* Bounds of the model

\* size of the group a booking request names
MaxGroup == 2
\* number of chat turns and environment events in one run
MaxTurns == 3

----------------------------------------------------------------------------
\* Data

\* ScrapedEvent, by what the pipeline and the matcher read of it:
\*  isFree, price  set apart: "sold" is what enrichEventPrices leaves for a
\*                 sold-out listing scraped without a price (isFree = false,
\*                 price stays 0); prices are in cents, "paid" costs $38.89
\*  dated          event.date && event.time
\*  parsed         parseEventDate(event.date, event.time) is a date
\*  day            that date, in days from today (negative: before today)
\*  timed          the parsed date carries a time of day
\*  dayOfWeek      first letters of event.dayOfWeek ("" when missing)
\*  genre          event.genre
\*  descFree       the description says "free" / "no cover" / "no charge"
Ev(id, isFree, price, dated, parsed, day, timed, dayOfWeek, genre, descFree) ==
  [id |-> id, isFree |-> isFree, price |-> price, dated |-> dated,
   parsed |-> parsed, day |-> day, timed |-> timed, dayOfWeek |-> dayOfWeek,
   genre |-> genre, descFree |-> descFree]

Catalog ==
  [ free |-> Ev("free", TRUE,  0,    TRUE,  TRUE,  20, TRUE,  "tue", None,   TRUE),
    paid |-> Ev("paid", FALSE, 3889, TRUE,  TRUE,  20, TRUE,  "tue", None,   FALSE),
    sold |-> Ev("sold", FALSE, 0,    FALSE, FALSE, 0,  FALSE, "",    None,   FALSE),
    gig  |-> Ev("gig",  FALSE, 500,  TRUE,  TRUE,  3,  TRUE,  "sat", "jazz", FALSE),
    past |-> Ev("past", TRUE,  0,    TRUE,  TRUE,  -1, FALSE, "mon", "jazz", FALSE) ]

EventIds == DOMAIN Catalog

\* discoverEvents(): the live scrape of the venues
LiveEvents == <<"free", "paid", "sold">>

\* getStaticEventData(): the built-in list used when discovery throws
getStaticEventData == <<"paid", "free">>

\* attendee names: 0 is the default attendee "User"
Group == [i \in 1..MaxGroup |-> i]
DefaultAttendees == <<0>>

Wallets == {"W1"}
Tokens == {"T1"}
EmailA == "a@x.com"
EmailB == "b@y.com"

UserActions ==
  {"greeting", "search_events", "book_ticket", "check_calendar",
   "general_question", "confirm_booking", "provide_email", "cancel",
   "book_anyway", "discover_music"}

\* A user message, by what the source reads from its text:
\*  emails      the addresses emailRegex finds (extractEmails)
\*  email       the first of them (extractEmail)
\*  wantsEmail  \bsend\b | \bmail\b | \bemail\b | \bconfirmation\b
\*  calCtx      "calendar" | "availability" | "free slot"
\*  hasNo       includes "no"
\*  skipLater   includes "skip" | "later"
\*  affirm      "book anyway" | "yes" | "go ahead" | "proceed" | "ignore" | "book it"
\*  altWords    "cancel" | "different" | "alternative" | "other"
\*  music       one of the music keywords
\*  bookWord    includes "book" | "ticket"
\*  names       the event whose name the text holds
\*  ordinal     the list position handleBookingConfirmation reads (0: none)
Msg(id, emails, email, wantsEmail, hasNo, affirm, altWords, music, bookWord, names, ordinal) ==
  [id |-> id, emails |-> emails, email |-> email, wantsEmail |-> wantsEmail,
   calCtx |-> FALSE, hasNo |-> hasNo, skipLater |-> FALSE, affirm |-> affirm,
   altWords |-> altWords, music |-> music, bookWord |-> bookWord,
   names |-> names, ordinal |-> ordinal]

MNoThanks  == Msg("no thanks", {}, None, FALSE, TRUE, FALSE, FALSE, FALSE, FALSE, None, 0)
MMyEmail   == Msg("my email is a@x.com", {EmailA}, EmailA, TRUE, FALSE, FALSE, FALSE, FALSE, FALSE, None, 0)
MAddresses == Msg("a@x.com, b@y.com", {EmailA, EmailB}, EmailA, FALSE, FALSE, FALSE, FALSE, FALSE, FALSE, None, 0)
MBookAnyway == Msg("book anyway", {}, None, FALSE, FALSE, TRUE, FALSE, FALSE, TRUE, None, 0)
MBookSecond == Msg("book #2", {}, None, FALSE, FALSE, FALSE, FALSE, FALSE, TRUE, None, 2)
MBookFree  == Msg("book tickets for <free>", {}, None, FALSE, FALSE, FALSE, FALSE, FALSE, TRUE, "free", 0)
MBookPaid  == Msg("book tickets for <paid>", {}, None, FALSE, FALSE, FALSE, FALSE, FALSE, TRUE, "paid", 0)
MBookSold  == Msg("book tickets for <sold>", {}, None, FALSE, FALSE, FALSE, FALSE, FALSE, TRUE, "sold", 0)
MMusic     == Msg("play some jazz", {}, None, FALSE, FALSE, FALSE, FALSE, TRUE, FALSE, None, 0)

Messages ==
  {MNoThanks, MMyEmail, MAddresses, MBookAnyway, MBookSecond,
   MBookFree, MBookPaid, MBookSold, MMusic}

\* sequence helpers
Range(s) == {s[i] : i \in DOMAIN s}

----------------------------------------------------------------------------
\* Session state (the module-level `state` object) and what one call returns

InitState ==
  [ events |-> <<>>, matches |-> <<>>, intent |-> Null,
    awaitingConfirmation |-> FALSE, lastPresentedEvents |-> <<>>,
    awaitingEmail |-> FALSE, lastBookingResult |-> Null,
    awaitingBookAnyway |-> FALSE, pendingConflictBooking |-> Null,
    calendarChecked |-> FALSE, paymentConfirmed |-> FALSE,
    bookingExecuted |-> FALSE ]

\* a reset that keeps the presented list and the pending conflict
resetAgentState_KeepCached(st) ==
  [InitState EXCEPT !.lastPresentedEvents = st.lastPresentedEvents,
                    !.awaitingConfirmation = st.awaitingConfirmation,
                    !.awaitingBookAnyway = st.awaitingBookAnyway,
                    !.pendingConflictBooking = st.pendingConflictBooking]

\* resetAgentState()
resetAgentState(st) == InitState

\* What a call of an entry point did and returned: the request it got, the
\* collaborator calls it made and the fields of its response.
BlankOut ==
  [ entry |-> "init", turn |-> 0, msg |-> None, action |-> None, llm |-> FALSE,
    wallet |-> None, cbr |-> Null, token |-> None, emails |-> NoEmails,
    proof |-> Null,
    response |-> "none", event |-> None, attendees |-> <<>>,
    check |-> "none", checkEmails |-> NoEmails, calendarClear |-> FALSE,
    fromConflict |-> FALSE,
    gate |-> FALSE, gateWallet |-> None,
    walletAction |-> Null, pendingBooking |-> Null,
    mint |-> Null, calWrite |-> None,
    tickets |-> <<>>, bookingResult |-> Null, needsEmails |-> FALSE,
    events |-> <<>>, emailCall |-> Null ]

Ret(st, out) == [st |-> st, out |-> out]

----------------------------------------------------------------------------
\* Intent classifier

\* The deterministic short-circuits of classifyAction, in the order of the
\* source; "LLM" when none applies and the delegate is asked.
classifyShort(m, isAwaitingEmail, isAwaitingBookAnyway) ==
  LET hasEmail == m.emails # {} IN
  IF hasEmail /\ ~m.calCtx /\ m.wantsEmail THEN "provide_email"
  ELSE IF isAwaitingEmail /\ hasEmail /\ ~m.calCtx THEN "provide_email"
  ELSE IF isAwaitingEmail /\ ~m.calCtx /\ (m.hasNo \/ m.skipLater)
    THEN "general_question"
  ELSE IF isAwaitingBookAnyway /\ m.affirm THEN "book_anyway"
  ELSE IF isAwaitingBookAnyway /\ (m.hasNo \/ m.altWords) THEN "search_events"
  ELSE IF m.music /\ ~m.bookWord THEN "discover_music"
  ELSE "LLM"

\* The writes classifyAction makes to the session on its two declining
\* branches (it clears the email state, or the conflict state).
classifyEffect(st, m) ==
  LET hasEmail == m.emails # {}
      emailRule == hasEmail /\ ~m.calCtx /\ (m.wantsEmail \/ st.awaitingEmail) IN
  IF emailRule THEN st
  ELSE IF st.awaitingEmail /\ ~m.calCtx /\ (m.hasNo \/ m.skipLater)
    THEN [st EXCEPT !.awaitingEmail = FALSE, !.lastBookingResult = Null]
  ELSE IF st.awaitingBookAnyway /\ ~m.affirm /\ (m.hasNo \/ m.altWords)
    THEN [st EXCEPT !.awaitingBookAnyway = FALSE, !.pendingConflictBooking = Null]
  ELSE st

\* The answers of the classification delegate: any tag of the closed set (an
\* unrecognised answer maps to general_question). greeting and
\* check_calendar end, like general_question, in a generated text with no
\* write to the session; general_question stands for the three.
LLMAnswers == UserActions \ {"greeting", "check_calendar"}

\* a classifier whose conflict short-circuit looks at awaitingConfirmation
classifyAction_ByConfirmation(st, m) ==
  LET short == classifyShort(m, st.awaitingEmail, st.awaitingConfirmation) IN
  IF short # "LLM" THEN {[tag |-> short, st |-> classifyEffect(st, m), llm |-> FALSE]}
  ELSE {[tag |-> t, st |-> classifyEffect(st, m), llm |-> TRUE] : t \in LLMAnswers}

\* classifyAction: every (tag, session) it can end with
classifyAction(st, m) ==
  LET short == classifyShort(m, st.awaitingEmail, st.awaitingBookAnyway)
      st1 == classifyEffect(st, m) IN
  IF short # "LLM" THEN {[tag |-> short, st |-> st1, llm |-> FALSE]}
  ELSE {[tag |-> t, st |-> st1, llm |-> TRUE] : t \in LLMAnswers}

----------------------------------------------------------------------------
\* Collaborators

\* UserIntent, by what the pipeline and the matcher read of it:
\*  hasBudget, budget  budget !== null, and the ceiling in cents
\*  notesFree          additionalNotes includes "free"
\*  notesPaid          additionalNotes includes "paid" | "ticketed"
\*  nextDays           the n of "next n days" in the notes (0: no such phrase)
\*  preferredDays      first letters of the preferred days, or "weekend"
\*  genres, checkCalendar
Intent(attendees, hasBudget, budget, notesFree, notesPaid, nextDays, preferredDays, genres, checkCalendar) ==
  [attendees |-> attendees, hasBudget |-> hasBudget, budget |-> budget,
   notesFree |-> notesFree, notesPaid |-> notesPaid, nextDays |-> nextDays,
   preferredDays |-> preferredDays, genres |-> genres,
   checkCalendar |-> checkCalendar]

\* extractIntent: the default on any failure of the delegate
DefaultIntent ==
  Intent(DefaultAttendees, FALSE, 0, FALSE, FALSE, 0, {}, {}, FALSE)

\* What discovery and extraction give one search or booking turn:
\* discoverEvents() or, when it throws, getStaticEventData(); the intent the
\* delegate extracts (a named group; no attendee and a budget of $10; a
\* budget of $10 and a weekend preference, which no live event meets), or
\* the default intent when extraction fails.
SearchOutcomes ==
  { [events |-> LiveEvents,
     intent |-> Intent(Group, FALSE, 0, FALSE, FALSE, 0, {}, {}, FALSE)],
    [events |-> LiveEvents,
     intent |-> Intent(<<>>, TRUE, 1000, FALSE, FALSE, 0, {}, {}, FALSE)],
    [events |-> LiveEvents,
     intent |-> Intent(<<>>, TRUE, 1000, FALSE, FALSE, 0, {"weekend"}, {}, FALSE)],
    [events |-> getStaticEventData, intent |-> DefaultIntent] }

\* the free slots handed to the matcher: undefined, or the days (from today)
\* on which every attendee is free
NoSlots == [given |-> FALSE, days |-> {}]

\* today is a Wednesday: this week's Saturday is 3 days away
ThisSaturday == 3

\* detectTimeRange: "next n days" in the notes, or a weekend preference (this
\* week's Saturday and Sunday); the other phrases give windows alike
detectTimeRange(intent) ==
  IF intent.nextDays # 0
    THEN [set |-> TRUE, start |-> 0, end |-> intent.nextDays]
  ELSE IF "weekend" \in intent.preferredDays
    THEN [set |-> TRUE, start |-> ThisSaturday, end |-> ThisSaturday + 1]
  ELSE [set |-> FALSE, start |-> 0, end |-> 0]

\* Math.ceil of the time from today's midnight to the event, in days
daysAway(e) == e.day + (IF e.timed THEN 1 ELSE 0)

\* the additive part of scoreEvent, for an event no filter returned on
scoreSum(e, intent, freeSlots, timeRange) ==
  LET wantsWeekend == "weekend" \in intent.preferredDays
      window == IF timeRange.set /\ e.parsed THEN 15 ELSE 0
      budget == IF ~intent.hasBudget THEN 0 ELSE IF e.isFree THEN 30 ELSE 20
      free == IF intent.notesFree /\ e.isFree THEN 25 ELSE 0
      paid == IF intent.notesPaid /\ e.isFree /\ e.price = 0 THEN 5 ELSE 0
      days == IF intent.preferredDays = {} THEN 10
              ELSE IF wantsWeekend /\ e.dayOfWeek \in {"sat", "sun"} THEN 25
              ELSE IF e.dayOfWeek # "" /\ e.dayOfWeek \in intent.preferredDays
                THEN 25
              ELSE IF e.dayOfWeek # "" /\ ~wantsWeekend THEN 5
              ELSE 0
      genre == IF intent.genres # {} /\ e.genre # None /\ e.genre \in intent.genres
                 THEN 20 ELSE 0
      calendar == IF intent.checkCalendar /\ freeSlots.given /\ freeSlots.days # {}
                    THEN IF e.parsed /\ e.day \in freeSlots.days THEN 30 ELSE -20
                    ELSE 0
      proximity == IF e.parsed /\ daysAway(e) >= 0 /\ daysAway(e) <= 14
                         /\ 15 - daysAway(e) > 0
                     THEN 15 - daysAway(e) ELSE 0 IN
  window + budget + free + paid + days + genre + calendar + proximity

\* a scorer that counts an event over budget as a penalty
scoreEvent_BudgetSoft(e, intent, freeSlots, timeRange) ==
  IF e.parsed /\ e.day < 0 THEN 0
  ELSE IF timeRange.set /\ ~e.parsed THEN 0
  ELSE IF timeRange.set /\ (e.day < timeRange.start \/ e.day > timeRange.end) THEN 0
  ELSE IF intent.notesFree /\ ~e.isFree THEN 0
  ELSE IF intent.hasBudget /\ e.price > intent.budget
    THEN scoreSum(e, intent, freeSlots, timeRange) - 20
  ELSE scoreSum(e, intent, freeSlots, timeRange) + 10

\* scoreEvent: 0 from each filter in the order of the source, else the sum,
\* with the flat bonus once it is positive
scoreEvent(e, intent, freeSlots, timeRange) ==
  IF e.parsed /\ e.day < 0 THEN 0
  ELSE IF timeRange.set /\ ~e.parsed THEN 0
  ELSE IF timeRange.set /\ (e.day < timeRange.start \/ e.day > timeRange.end) THEN 0
  ELSE IF intent.hasBudget /\ e.price > intent.budget THEN 0
  ELSE IF intent.notesFree /\ ~e.isFree THEN 0
  ELSE IF intent.notesPaid /\ e.isFree /\ e.price = 0 /\ e.descFree THEN 0
  ELSE IF scoreSum(e, intent, freeSlots, timeRange) > 0
    THEN scoreSum(e, intent, freeSlots, timeRange) + 10
  ELSE scoreSum(e, intent, freeSlots, timeRange)

\* the most matches matchEvents returns
TopMatches == 15

\* matches.sort((a, b) => b.score - a.score): stable, descending by score
RECURSIVE InsertMatch(_, _)
InsertMatch(m, sorted) ==
  IF sorted = <<>> THEN <<m>>
  ELSE IF Head(sorted).score >= m.score
    THEN <<Head(sorted)>> \o InsertMatch(m, Tail(sorted))
  ELSE <<m>> \o sorted

RECURSIVE SortMatches(_)
SortMatches(ms) ==
  IF ms = <<>> THEN <<>>
  ELSE InsertMatch(ms[Len(ms)], SortMatches(SubSeq(ms, 1, Len(ms) - 1)))

\* the events with a positive score, in listing order
RECURSIVE ScoredMatches(_, _, _)
ScoredMatches(events, intent, freeSlots) ==
  IF events = <<>> THEN <<>>
  ELSE LET score == scoreEvent(Catalog[Head(events)], intent, freeSlots,
                               detectTimeRange(intent))
           rest == ScoredMatches(Tail(events), intent, freeSlots) IN
       IF score > 0 THEN <<[event |-> Head(events), score |-> score]>> \o rest
                    ELSE rest

\* matchEvents: the events with a positive score, by descending score, the
\* first 15 of them
matchEvents(events, intent, freeSlots) ==
  LET sorted == SortMatches(ScoredMatches(events, intent, freeSlots))
      top == SubSeq(sorted, 1, IF Len(sorted) < TopMatches THEN Len(sorted)
                                                            ELSE TopMatches) IN
  [i \in DOMAIN top |-> top[i].event]

\* a turn that presents what the matcher returned, be it nothing
PresentedMatches_NoFallback(events, intent) ==
  matchEvents(events, intent, NoSlots)

\* the fallback of handleEventSearch / handleBookingRequest: all events when
\* the matcher returns none.  The intents of SearchOutcomes ask for no
\* calendar check, so the matcher is handed no free slots.
PresentedMatches(events, intent) ==
  IF matchEvents(events, intent, NoSlots) = <<>>
    THEN events ELSE matchEvents(events, intent, NoSlots)

\* findEventByName against the discovered list
findEventByName(events, m) ==
  IF m.names \in Range(events) THEN m.names ELSE None

\* checkCalendarForEvent: success with allFree, success with a busy attendee,
\* or success = false
CheckOutcomes == {"free", "busy", "failed"}

\* a gate that holds the booking on every check that is not all-free
ConflictReported_OrFailed(c) == c # "free"

\* calResult.success && !calResult.allFree: the check reports a conflict
ConflictReported(c) == c = "busy"

\* the calendar_clear record: the check succeeded with every attendee free
CalendarClear(c) == c = "free"

\* process.env of the booking tool and the answer of the chain
\*   merkle  MERKLE_TREE_ADDRESS set,  userKey  USER_WALLET_PUBLIC_KEY set,
\*   chain   "ok" or "throw" (purchaseAndMintTicket, balance, wallet file)
MintEnvs ==
  { [merkle |-> FALSE, userKey |-> FALSE, chain |-> "ok"],
    [merkle |-> TRUE,  userKey |-> FALSE, chain |-> "ok"],
    [merkle |-> TRUE,  userKey |-> TRUE,  chain |-> "ok"],
    [merkle |-> TRUE,  userKey |-> TRUE,  chain |-> "throw"] }

\* simulateBooking: one demo ticket per attendee, success = true
simulateBooking(event, attendees) ==
  [ success |-> TRUE, event |-> event,
    tickets |-> [i \in DOMAIN attendees |->
                   [attendeeName |-> attendees[i], demo |-> TRUE]] ]

\* executeBooking: real tickets when configured and the chain answers; the
\* simulation when a variable is missing, and also when minting throws
executeBooking(event, attendees, env) ==
  IF ~env.merkle \/ ~env.userKey THEN simulateBooking(event, attendees)
  ELSE IF env.chain = "throw" THEN simulateBooking(event, attendees)
  ELSE [ success |-> TRUE, event |-> event,
         tickets |-> [i \in DOMAIN attendees |->
                        [attendeeName |-> attendees[i], demo |-> FALSE]] ]

\* what became of the mint call on the chain
MintOutcome(fn, env) ==
  IF fn = "simulateBooking" \/ ~env.merkle \/ ~env.userKey THEN "simulated"
  ELSE IF env.chain = "throw" THEN "threw" ELSE "minted"

\* the ownerAddress executeBooking hands to purchaseAndMintTicket: the
\* configured USER_WALLET_PUBLIC_KEY, whatever fanWalletAddress the request
\* names; none when the booking is simulated
EnvUserKey == "USER_WALLET_PUBLIC_KEY"

MintOwner(fn, env) ==
  IF MintOutcome(fn, env) = "simulated" THEN None ELSE EnvUserKey

\* createCalendarEvent succeeds or fails
CalWriteOutcomes == {"ok", "failed"}

\* sendBookingEmail succeeds or fails
EmailOutcomes == {TRUE, FALSE}

----------------------------------------------------------------------------
\* Booking pipeline

\* the test both branches of the payment gate make
IsFreeAtGate(event) == Catalog[event].isFree \/ Catalog[event].price = 0

\* the fixed divisor of the devnet pricing
DevnetDivisor == 10000

\* calculateDevnetSol: priceUsd / 10000, with the price in cents and the
\* amount in millionths of a SOL (a cent is 10000 millionths of a dollar)
calculateDevnetSol(priceUsd) ==
  IF priceUsd <= 0 THEN 0 ELSE (priceUsd * 10000) \div DevnetDivisor

\* a transfer request for the per-ticket amount alone
TransferAction_OneTicket(priceUsd, n) ==
  [type |-> "transfer_sol", amount |-> calculateDevnetSol(priceUsd)]

\* the transfer request of the payment gate for n attendees
TransferAction(priceUsd, n) ==
  [type |-> "transfer_sol", amount |-> calculateDevnetSol(priceUsd) * n]

\* the condition of both entry points for the post-mint calendar write
NeedsCalWrite(token, result, event) ==
  token # None /\ result.success /\ Catalog[event].dated

CalWrites(token, result, event) ==
  IF NeedsCalWrite(token, result, event) THEN CalWriteOutcomes ELSE {None}

\* the session writes after a mint: the result is cached and the email
\* offer opened only when the booking succeeded
CacheResult(st, result) ==
  IF result.success
    THEN [st EXCEPT !.lastBookingResult = result, !.awaitingEmail = TRUE]
    ELSE st

\* formatBookingResult, by its headline
formatBookingResult(result) ==
  IF ~result.success THEN "booking_failed"
  ELSE IF Len(result.tickets) > 0 /\ ~result.tickets[1].demo
    THEN "booking_confirmed_real"
  ELSE "booking_confirmed_demo"

BookingEcho(result) == IF result.success THEN result ELSE Null

\* the booking tool as proceedToPayment calls it without a wallet
ServerSideFn(env) ==
  IF env.merkle /\ env.userKey THEN "executeBooking" ELSE "simulateBooking"

ServerSideResult(event, attendees, env) ==
  IF ServerSideFn(env) = "executeBooking"
    THEN executeBooking(event, attendees, env)
    ELSE simulateBooking(event, attendees)

\* The server-side mint of proceedToPayment (no wallet, free event) for one
\* answer of the booking tool and of the calendar write.
ServerSideMint(st, event, attendees, token, emails, o, env, cw) ==
  LET fn == ServerSideFn(env)
      result == ServerSideResult(event, attendees, env)
      st1 == [st EXCEPT !.bookingExecuted = TRUE]
      st2 == [CacheResult(st1, result) EXCEPT !.awaitingConfirmation = FALSE] IN
  Ret(st2, [o EXCEPT !.response = formatBookingResult(result),
                     !.mint = [fn |-> fn, event |-> event, attendees |-> attendees,
                               fanWalletAddress |-> EnvUserKey,
                               owner |-> MintOwner(fn, env),
                               outcome |-> MintOutcome(fn, env)],
                     !.calWrite = cw,
                     !.tickets = result.tickets,
                     !.bookingResult = BookingEcho(result)])

\* proceedToPayment
proceedToPayment(st, event, attendees, userWallet, calendarToken, attendeeEmails, o) ==
  LET o1 == [o EXCEPT !.gate = TRUE, !.gateWallet = userWallet,
                      !.event = event, !.attendees = attendees]
      snapshot == [event |-> event, attendees |-> attendees,
                   calendarToken |-> calendarToken,
                   attendeeEmails |-> attendeeEmails] IN
  IF userWallet # None THEN
    IF IsFreeAtGate(event) THEN
      { Ret([st EXCEPT !.paymentConfirmed = FALSE],
            [o1 EXCEPT !.response = "sign_request",
                       !.walletAction = [type |-> "sign_message", amount |-> 0],
                       !.pendingBooking = snapshot]) }
    ELSE
      { Ret([st EXCEPT !.paymentConfirmed = FALSE],
            [o1 EXCEPT !.response = "payment_request",
                       !.walletAction =
                          TransferAction(Catalog[event].price, Len(attendees)),
                       !.pendingBooking = snapshot]) }
  ELSE IF ~IsFreeAtGate(event) THEN
    { Ret(st, [o1 EXCEPT !.response = "connect_wallet"]) }
  ELSE
    UNION { { ServerSideMint(st, event, attendees, calendarToken, attendeeEmails,
                             o1, env, cw)
              : cw \in CalWrites(calendarToken,
                                 ServerSideResult(event, attendees, env), event) }
            : env \in MintEnvs }

\* a calendar gate that never asks the availability collaborator
CalendarGate_Unchecked(st, event, attendees, userWallet, calendarToken, attendeeEmails, o) ==
  proceedToPayment([st EXCEPT !.calendarChecked = TRUE], event, attendees,
                   userWallet, calendarToken, attendeeEmails, o)

\* a calendar gate that goes on to the payment gate whatever the check says
CalendarGate_NoHold(st, event, attendees, userWallet, calendarToken, attendeeEmails, o) ==
  UNION { proceedToPayment([st EXCEPT !.calendarChecked = TRUE], event, attendees,
                           userWallet, calendarToken, attendeeEmails,
                           [o EXCEPT !.check = c, !.checkEmails = attendeeEmails,
                                     !.calendarClear = CalendarClear(c)])
          : c \in CheckOutcomes }

\* a calendar gate that goes on to the payment gate when no email is known
CalendarGate_SilentSkip(st, event, attendees, userWallet, calendarToken, attendeeEmails, o) ==
  IF calendarToken # None /\ attendeeEmails # NoEmails /\ attendeeEmails # {}
       /\ Catalog[event].dated THEN
    UNION {
      LET st1 == [st EXCEPT !.calendarChecked = TRUE]
          o1 == [o EXCEPT !.check = c, !.checkEmails = attendeeEmails,
                          !.calendarClear = CalendarClear(c),
                          !.event = event, !.attendees = attendees] IN
      IF ConflictReported(c) THEN
        { Ret([st1 EXCEPT !.awaitingBookAnyway = TRUE,
                          !.awaitingConfirmation = FALSE,
                          !.pendingConflictBooking =
                             [event |-> event, attendees |-> attendees,
                              userWallet |-> userWallet]],
              [o1 EXCEPT !.response = "conflict"]) }
      ELSE proceedToPayment(st1, event, attendees, userWallet, calendarToken,
                            attendeeEmails, o1)
      : c \in CheckOutcomes }
  ELSE
    proceedToPayment([st EXCEPT !.calendarChecked = TRUE], event, attendees,
                     userWallet, calendarToken, attendeeEmails,
                     [o EXCEPT !.check = IF calendarToken # None
                                           THEN "skipped" ELSE o.check])

\* The calendar gate of executeAndRespond for one answer of the availability
\* collaborator: the set of (session, response) it ends with.
CalendarGate(st, event, attendees, userWallet, calendarToken, attendeeEmails, o) ==
  IF calendarToken # None THEN
    IF attendeeEmails = NoEmails \/ attendeeEmails = {} THEN
      { Ret(st, [o EXCEPT !.response = "needs_emails", !.needsEmails = TRUE,
                          !.event = event, !.attendees = attendees]) }
    ELSE IF Catalog[event].dated THEN
      UNION {
        LET st1 == [st EXCEPT !.calendarChecked = TRUE]
            o1 == [o EXCEPT !.check = c, !.checkEmails = attendeeEmails,
                            !.calendarClear = CalendarClear(c),
                            !.event = event, !.attendees = attendees] IN
        IF ConflictReported(c) THEN
          { Ret([st1 EXCEPT !.awaitingBookAnyway = TRUE,
                            !.awaitingConfirmation = FALSE,
                            !.pendingConflictBooking =
                               [event |-> event, attendees |-> attendees,
                                userWallet |-> userWallet]],
                [o1 EXCEPT !.response = "conflict"]) }
        ELSE proceedToPayment(st1, event, attendees, userWallet, calendarToken,
                              attendeeEmails, o1)
        : c \in CheckOutcomes }
    ELSE
      proceedToPayment([st EXCEPT !.calendarChecked = TRUE], event, attendees,
                       userWallet, calendarToken, attendeeEmails,
                       [o EXCEPT !.check = "skipped"])
  ELSE
    proceedToPayment([st EXCEPT !.calendarChecked = TRUE], event, attendees,
                     userWallet, calendarToken, attendeeEmails, o)

\* executeAndRespond
executeAndRespond(st, event, attendees, userWallet, calendarToken, attendeeEmails, o) ==
  CalendarGate(st, event,
               IF attendees = <<>> THEN DefaultAttendees ELSE attendees,
               userWallet, calendarToken, attendeeEmails, o)

\* Array.from(new Set([...(attendeeEmails || []), ...emailsFromMessage]))
AllEmails(attendeeEmails, m) ==
  (IF attendeeEmails = NoEmails THEN {} ELSE attendeeEmails) \cup m.emails

\* what one search or booking turn has once discovery, extraction and
\* ranking are done: the events, the intent, and the matches to present
Searches ==
  { [events |-> d.events, intent |-> d.intent,
     matches |-> PresentedMatches(d.events, d.intent)] : d \in SearchOutcomes }

\* the session writes of a search or booking turn once events are
\* discovered and ranked
Discovered(st, events, matches) ==
  [st EXCEPT !.events = events, !.matches = matches,
             !.lastPresentedEvents = matches]

\* handleEventSearch
handleEventSearch(st, m, req, o) ==
  { LET st1 == Discovered(st, d.events, d.matches)
        st2 == IF d.matches # <<>>
                 THEN [st1 EXCEPT !.awaitingConfirmation = TRUE, !.intent = d.intent]
                 ELSE st1 IN
    Ret(st2, [o EXCEPT !.response = "event_list", !.events = d.matches])
    : d \in Searches }

\* handleBookingRequest
handleBookingRequest(st, m, req, o) ==
  UNION {
    LET st1 == Discovered([st EXCEPT !.intent = d.intent], d.events, d.matches)
        specificEvent == findEventByName(d.events, m) IN
    IF specificEvent # None THEN
      executeAndRespond(st1, specificEvent, d.intent.attendees, req.wallet,
                        req.token, AllEmails(req.emails, m), o)
    ELSE
      { Ret(IF d.matches # <<>>
              THEN [st1 EXCEPT !.awaitingConfirmation = TRUE] ELSE st1,
            [o EXCEPT !.response = "event_list", !.events = d.matches]) }
    : d \in Searches }

\* handleBookingConfirmation
handleBookingConfirmation(st, m, req, o) ==
  LET selectedIndex == m.ordinal - 1 IN
  IF selectedIndex < 0 \/ selectedIndex >= Len(st.lastPresentedEvents) THEN
    { Ret(st, [o EXCEPT !.response = "which_one"]) }
  ELSE
    executeAndRespond(st, st.lastPresentedEvents[selectedIndex + 1],
                      IF st.intent = Null THEN DefaultAttendees
                                         ELSE st.intent.attendees,
                      req.wallet, req.token, AllEmails(req.emails, m), o)

\* a handleEmailSend that closes the email offer when the send fails
handleEmailSend_ClearOnFailure(st, m, o) ==
  IF m.email = None THEN { Ret(st, [o EXCEPT !.response = "no_address_found"]) }
  ELSE IF st.lastBookingResult = Null THEN
    { Ret(st, [o EXCEPT !.response = "nothing_to_email"]) }
  ELSE
    { Ret([st EXCEPT !.awaitingEmail = FALSE, !.lastBookingResult = Null],
          [o EXCEPT !.response = IF ok THEN "email_sent" ELSE "email_failed",
                    !.emailCall = [to |-> m.email,
                                   bookingResult |-> st.lastBookingResult,
                                   success |-> ok]])
      : ok \in EmailOutcomes }

\* a handleEmailSend that resets the whole session once the email is sent
handleEmailSend_Reset(st, m, o) ==
  IF m.email = None THEN { Ret(st, [o EXCEPT !.response = "no_address_found"]) }
  ELSE IF st.lastBookingResult = Null THEN
    { Ret(st, [o EXCEPT !.response = "nothing_to_email"]) }
  ELSE
    { LET call == [to |-> m.email, bookingResult |-> st.lastBookingResult,
                   success |-> ok] IN
      IF ok THEN Ret(resetAgentState(st),
                     [o EXCEPT !.response = "email_sent", !.emailCall = call])
            ELSE Ret(st, [o EXCEPT !.response = "email_failed", !.emailCall = call])
      : ok \in EmailOutcomes }

\* handleEmailSend
handleEmailSend(st, m, o) ==
  IF m.email = None THEN { Ret(st, [o EXCEPT !.response = "no_address_found"]) }
  ELSE IF st.lastBookingResult = Null THEN
    { Ret(st, [o EXCEPT !.response = "nothing_to_email"]) }
  ELSE
    { LET call == [to |-> m.email, bookingResult |-> st.lastBookingResult,
                   success |-> ok] IN
      IF ok THEN Ret([st EXCEPT !.awaitingEmail = FALSE, !.lastBookingResult = Null],
                     [o EXCEPT !.response = "email_sent", !.emailCall = call])
            ELSE Ret(st, [o EXCEPT !.response = "email_failed", !.emailCall = call])
      : ok \in EmailOutcomes }

\* a book_anyway that runs the calendar gate again and keeps the conflict
BookAnyway_Recheck(st, req, o) ==
  IF st.pendingConflictBooking # Null THEN
    CalendarGate(st, st.pendingConflictBooking.event,
                 st.pendingConflictBooking.attendees,
                 st.pendingConflictBooking.userWallet,
                 req.token, req.emails, [o EXCEPT !.fromConflict = TRUE])
  ELSE { Ret(st, [o EXCEPT !.response = "no_pending_booking"]) }

\* the book_anyway case of handleMessage
BookAnyway(st, req, o) ==
  IF st.pendingConflictBooking # Null THEN
    proceedToPayment([st EXCEPT !.awaitingBookAnyway = FALSE,
                                !.pendingConflictBooking = Null,
                                !.calendarChecked = TRUE],
                     st.pendingConflictBooking.event,
                     st.pendingConflictBooking.attendees,
                     st.pendingConflictBooking.userWallet,
                     req.token, req.emails,
                     [o EXCEPT !.fromConflict = TRUE])
  ELSE { Ret(st, [o EXCEPT !.response = "no_pending_booking"]) }

\* a new attempt that keeps the progress flags of the last one
NewAttempt_Keep(st) == st

\* the reset of the progress flags that opens a new booking attempt
NewAttempt(st) ==
  [st EXCEPT !.calendarChecked = FALSE, !.paymentConfirmed = FALSE,
             !.bookingExecuted = FALSE]

\* the switch of handleMessage
Dispatch(st, action, m, req, o) ==
  CASE action = "cancel" ->
         { Ret(resetAgentState(st), [o EXCEPT !.response = "cleared"]) }
    [] action = "search_events" -> handleEventSearch(st, m, req, o)
    [] action = "book_ticket" -> handleBookingRequest(NewAttempt(st), m, req, o)
    [] action = "confirm_booking" ->
         IF st.awaitingConfirmation /\ Len(st.lastPresentedEvents) > 0
           THEN handleBookingConfirmation(NewAttempt(st), m, req, o)
           ELSE handleEventSearch(st, m, req, o)
    [] action = "book_anyway" -> BookAnyway(st, req, o)
    [] action = "provide_email" -> handleEmailSend(st, m, o)
    [] action = "discover_music" -> { Ret(st, [o EXCEPT !.response = "music"]) }
    [] OTHER -> { Ret(st, [o EXCEPT !.response = "chat"]) }

\* a handleMessage that ignores the client's BookingResult
RestoreFromClient_Ignored(st, clientBookingResult) == st

\* the restore at the head of handleMessage: the client's BookingResult
\* overrides the session's
RestoreFromClient(st, clientBookingResult) ==
  IF clientBookingResult # Null
    THEN [st EXCEPT !.lastBookingResult = clientBookingResult,
                    !.awaitingEmail = TRUE]
    ELSE st

\* handleMessage: every (session, response) one turn can end with
handleMessage(st, m, req) ==
  UNION { Dispatch(c.st, c.tag, m, req,
                   [BlankOut EXCEPT !.entry = "handleMessage", !.msg = m.id,
                                    !.action = c.tag, !.llm = c.llm,
                                    !.wallet = req.wallet, !.cbr = req.cbr,
                                    !.token = req.token, !.emails = req.emails])
          : c \in classifyAction(RestoreFromClient(st, req.cbr), m) }

\* a resumption that books for the attendees of the session's intent
ResumeMint_FromSession(st, event, attendees, userWallet, paymentTxHash, calendarToken, attendeeEmails, env, cw) ==
  LET who == IF st.intent # Null THEN st.intent.attendees ELSE attendees
      result == simulateBooking(event, who) IN
  Ret(CacheResult(st, result),
      [BlankOut EXCEPT !.entry = "executePendingBooking",
                       !.response = formatBookingResult(result),
                       !.event = event, !.attendees = who,
                       !.mint = [fn |-> "simulateBooking", event |-> event,
                                 attendees |-> who,
                                 fanWalletAddress |-> userWallet,
                                 owner |-> None,
                                 outcome |-> "simulated"],
                       !.calWrite = cw,
                       !.tickets = result.tickets,
                       !.bookingResult = BookingEcho(result)])

\* executePendingBooking for one answer of the booking tool and of the
\* calendar write
ResumeMint(st, event, attendees, userWallet, paymentTxHash, calendarToken, attendeeEmails, env, cw) ==
  LET fn == IF env.merkle THEN "executeBooking" ELSE "simulateBooking"
      result == IF env.merkle THEN executeBooking(event, attendees, env)
                              ELSE simulateBooking(event, attendees)
      st1 == [st EXCEPT !.paymentConfirmed = TRUE, !.bookingExecuted = TRUE] IN
  Ret(CacheResult(st1, result),
      [BlankOut EXCEPT !.entry = "executePendingBooking",
                       !.proof = [paymentTxHash |-> paymentTxHash],
                       !.wallet = userWallet, !.token = calendarToken,
                       !.emails = attendeeEmails,
                       !.response = formatBookingResult(result),
                       !.event = event, !.attendees = attendees,
                       !.mint = [fn |-> fn, event |-> event,
                                 attendees |-> attendees,
                                 fanWalletAddress |-> userWallet,
                                 owner |-> MintOwner(fn, env),
                                 outcome |-> MintOutcome(fn, env)],
                       !.calWrite = cw,
                       !.tickets = result.tickets,
                       !.bookingResult = BookingEcho(result)])

\* executePendingBooking
executePendingBooking(st, event, attendees, userWallet, paymentTxHash, calendarToken, attendeeEmails) ==
  UNION { { ResumeMint(st, event, attendees, userWallet, paymentTxHash,
                       calendarToken, attendeeEmails, env, cw)
            : cw \in CalWrites(calendarToken,
                               IF env.merkle
                                 THEN executeBooking(event, attendees, env)
                                 ELSE simulateBooking(event, attendees),
                               event) }
          : env \in MintEnvs }

----------------------------------------------------------------------------
\* The page client and the two routes

VARIABLES
  state,     \* the session state of the agent module
  client,    \* the React state of the page: wallet, stored BookingResult,
             \* calendar connection, attendee emails, outstanding wallet action
  last,      \* what the last call of an entry point did and returned
  conflict,  \* history: the availability call that reported the latest conflict
  turns      \* chat turns and environment events so far

vars == <<state, client, last, conflict, turns>>

\* the React state of a page that was just loaded
InitClient ==
  [ publicKey |-> None, lastBookingResult |-> Null, calendarToken |-> None,
    attendeeEmails |-> {}, pending |-> Null ]

\* the page after its mount effect: a plain load, or the OAuth callback, which
\* sets the token and, when the callback carries it, the user's own address
PageLoads ==
  {InitClient} \cup
  { [InitClient EXCEPT !.calendarToken = t, !.attendeeEmails = e]
    : t \in Tokens, e \in {{}, {EmailA}} }

Init ==
  /\ state = InitState
  /\ \E c \in PageLoads, w \in Wallets \cup {None} :
       client = [c EXCEPT !.publicKey = w]
  /\ last = BlankOut
  /\ conflict = Null
  /\ turns = 0

\* the body handleSend posts to /api/agent, as the route hands it on
ChatRequest(c, m) ==
  [ wallet |-> c.publicKey,
    cbr |-> c.lastBookingResult,
    token |-> c.calendarToken,
    emails |-> IF c.calendarToken # None THEN c.attendeeEmails \cup m.emails
                                         ELSE NoEmails ]

\* what handleSend keeps of the response
AfterChat(c, m, out) ==
  [c EXCEPT !.attendeeEmails = c.attendeeEmails \cup m.emails,
            !.lastBookingResult =
               IF out.bookingResult # Null THEN out.bookingResult
                                           ELSE c.lastBookingResult,
            !.pending =
               IF out.walletAction # Null /\ out.pendingBooking # Null
                 THEN [walletAction |-> out.walletAction,
                       pendingBooking |-> out.pendingBooking]
                 ELSE Null]

\* handleSend: one chat turn through POST /api/agent
Send(m) ==
  /\ client.pending = Null
  /\ turns < MaxTurns
  /\ \E r \in handleMessage(state, m, ChatRequest(client, m)) :
       /\ state' = r.st
       /\ last' = [r.out EXCEPT !.turn = turns + 1]
       /\ client' = AfterChat(client, m, r.out)
       /\ conflict' = IF r.out.check = "busy"
                        THEN [event |-> r.out.event, emails |-> r.out.checkEmails]
                        ELSE conflict
  /\ turns' = turns + 1

\* the "/reset" command of POST /api/agent
ResetCommand ==
  /\ client.pending = Null
  /\ turns < MaxTurns
  /\ state' = resetAgentState(state)
  /\ last' = [BlankOut EXCEPT !.entry = "reset", !.turn = turns + 1,
                               !.response = "state_reset"]
  /\ turns' = turns + 1
  /\ UNCHANGED <<client, conflict>>

\* a client that posts the resumption request without asking the wallet
WalletProof_Unsigned(walletAction) ==
  [paymentTxHash |-> None, walletSignature |-> None]

\* the proof handleWalletAction obtains from the wallet before it posts:
\* a signature for sign_message, a transfer reference for transfer_sol with
\* a non-zero amount, neither otherwise
WalletProof(walletAction) ==
  IF walletAction.type = "sign_message"
    THEN [paymentTxHash |-> None, walletSignature |-> "sig"]
  ELSE IF walletAction.type = "transfer_sol" /\ walletAction.amount # 0
    THEN [paymentTxHash |-> "tx", walletSignature |-> None]
  ELSE [paymentTxHash |-> None, walletSignature |-> None]

\* a client that posts its current calendar state, not the snapshot's
ResumeRequest_Current(c) ==
  [ event |-> c.pending.pendingBooking.event,
    attendees |-> c.pending.pendingBooking.attendees,
    userWallet |-> c.publicKey,
    paymentTxHash |-> WalletProof(c.pending.walletAction).paymentTxHash,
    walletSignature |-> WalletProof(c.pending.walletAction).walletSignature,
    calendarToken |-> c.calendarToken,
    attendeeEmails |-> IF c.calendarToken # None THEN c.attendeeEmails
                                                 ELSE NoEmails ]

\* the body handleWalletAction posts to /api/agent/execute-booking
ResumeRequest(c) ==
  LET pb == c.pending.pendingBooking
      proof == WalletProof(c.pending.walletAction) IN
  [ event |-> pb.event,
    attendees |-> pb.attendees,
    userWallet |-> c.publicKey,
    paymentTxHash |-> proof.paymentTxHash,
    walletSignature |-> proof.walletSignature,
    calendarToken |-> IF pb.calendarToken # None THEN pb.calendarToken
                                                 ELSE c.calendarToken,
    attendeeEmails |-> IF pb.attendeeEmails # NoEmails THEN pb.attendeeEmails
                       ELSE IF c.calendarToken # None THEN c.attendeeEmails
                       ELSE NoEmails ]

\* POST /api/agent/execute-booking
ExecuteBookingRoute(st, body) ==
  IF body.event = None \/ body.userWallet = None THEN
    { Ret(st, [BlankOut EXCEPT !.entry = "execute-booking",
                               !.response = "missing_fields"]) }
  ELSE
    { Ret(r.st, [r.out EXCEPT !.proof = [paymentTxHash |-> body.paymentTxHash,
                                         walletSignature |-> body.walletSignature]])
      : r \in executePendingBooking(st, body.event, body.attendees, body.userWallet,
                                    body.paymentTxHash, body.calendarToken,
                                    body.attendeeEmails) }

\* what handleWalletAction keeps of the response
AfterResume(c, out) ==
  [c EXCEPT !.pending = Null,
            !.lastBookingResult =
               IF out.bookingResult # Null THEN out.bookingResult
               ELSE IF Len(out.tickets) > 0
                 THEN [success |-> TRUE, event |-> c.pending.pendingBooking.event,
                       tickets |-> out.tickets]
               ELSE c.lastBookingResult]

\* handleWalletAction when the wallet signs or pays: the resumption request
WalletApprove ==
  /\ client.pending # Null
  /\ client.publicKey # None
  /\ \E r \in ExecuteBookingRoute(state, ResumeRequest(client)) :
       /\ state' = r.st
       /\ last' = [r.out EXCEPT !.turn = turns]
       /\ client' = AfterResume(client, r.out)
  /\ UNCHANGED <<conflict, turns>>

\* a client that posts the resumption request although the wallet refused
WalletReject_StillPosts ==
  /\ client.pending # Null
  /\ client.publicKey # None
  /\ \E r \in ExecuteBookingRoute(state,
                [ResumeRequest(client) EXCEPT !.paymentTxHash = None,
                                              !.walletSignature = None]) :
       /\ state' = r.st
       /\ last' = [r.out EXCEPT !.turn = turns]
       /\ client' = AfterResume(client, r.out)
  /\ UNCHANGED <<conflict, turns>>

\* handleWalletAction when the user rejects, or no wallet answers: no request
WalletReject ==
  /\ client.pending # Null
  /\ client' = [client EXCEPT !.pending = Null]
  /\ UNCHANGED <<state, last, conflict, turns>>

\* the module state is wiped (serverless cold start, hot reload)
ServerRestart ==
  /\ state # InitState
  /\ turns < MaxTurns
  /\ state' = InitState
  /\ last' = [BlankOut EXCEPT !.entry = "restart", !.turn = turns + 1]
  /\ turns' = turns + 1
  /\ UNCHANGED <<client, conflict>>

\* the page is loaded again: React state is gone
ClientReload ==
  /\ turns < MaxTurns
  /\ client' = InitClient
  /\ client' # client
  /\ turns' = turns + 1
  /\ UNCHANGED <<state, last, conflict>>

\* the OAuth callback: a page load that sets the token and the user's address
CalendarConnect ==
  /\ turns < MaxTurns
  /\ \E c \in PageLoads \ {InitClient} : client' = c
  /\ client' # client
  /\ turns' = turns + 1
  /\ UNCHANGED <<state, last, conflict>>

\* the token passes its expiry: isCalendarConnected turns false
CalendarExpire ==
  /\ client.calendarToken # None
  /\ turns < MaxTurns
  /\ client' = [client EXCEPT !.calendarToken = None]
  /\ turns' = turns + 1
  /\ UNCHANGED <<state, last, conflict>>

\* the hook detects the wallet after the page came up without one
WalletDetect ==
  /\ client.publicKey = None
  /\ turns < MaxTurns
  /\ \E w \in Wallets : client' = [client EXCEPT !.publicKey = w]
  /\ turns' = turns + 1
  /\ UNCHANGED <<state, last, conflict>>

Next ==
  \/ \E m \in Messages : Send(m)
  \/ ResetCommand
  \/ WalletApprove
  \/ WalletReject
  \/ ServerRestart
  \/ ClientReload
  \/ CalendarConnect
  \/ CalendarExpire
  \/ WalletDetect

Spec == Init /\ [][Next]_vars

----------------------------------------------------------------------------
\* Observations of the last call

\* the mint collaborator was invoked by the last call
Minted == last.mint # Null

\* a step that is one chat turn through handleMessage
ChatTurn == last'.turn # last.turn /\ last'.entry = "handleMessage"

\* the message of a chat turn
MsgOf(id) == CHOOSE m \in Messages : m.id = id
LastMsg == MsgOf(last.msg)

\* the receipt and the signature the last call was handed
HasReceipt == last.proof # Null /\ last.proof.paymentTxHash # None
HasSignature == last.proof # Null /\ last.proof.walletSignature # None

----------------------------------------------------------------------------
\* Payment gate

\* C1: the mint collaborator is invoked for an event with isFree = false only
\* in a call that was handed the reference of a transfer, and a wallet action
\* for such an event is a transfer of a positive amount, never a signature
\* request.
C1_NotFreeNeedsReceipt ==
  /\ (Minted /\ ~Catalog[last.mint.event].isFree) => HasReceipt
  /\ (last.walletAction # Null /\ ~Catalog[last.event].isFree)
       => (last.walletAction.type = "transfer_sol" /\ last.walletAction.amount > 0)

C4_PaidWithoutWalletBlocked ==
  [][(/\ ChatTurn
      /\ last'.gate /\ last'.gateWallet = None
      /\ ~Catalog[last'.event].isFree)
     => /\ last'.mint = Null
        /\ last'.response = "connect_wallet"
        /\ last'.tickets = <<>>
        /\ last'.walletAction = Null
        /\ last'.bookingResult = Null
        /\ state'.awaitingEmail = state.awaitingEmail
        /\ state'.lastBookingResult = state.lastBookingResult]_vars

\* C5: a call reports success (a "Booking Confirmed" text, a bookingResult
\* for the client, the email offer) only if the mint collaborator was called,
\* did not fail, and returned at least one ticket.
C5_SuccessOnlyIfMinted ==
  (\/ last.response \in {"booking_confirmed_real", "booking_confirmed_demo"}
   \/ last.bookingResult # Null)
  => (Minted /\ last.mint.outcome # "threw" /\ Len(last.tickets) > 0)

----------------------------------------------------------------------------
\* Calendar gate

\* C3 as stated: once a check has reported a conflict for an event, a wallet
\* action or a mint for that event happens only in a turn classified
\* book_anyway; an all-free check reaches the payment gate in its own turn.
C3_HeldUntilBookAnyway ==
  /\ [][(/\ ChatTurn
         /\ state.pendingConflictBooking # Null
         /\ last'.event = state.pendingConflictBooking.event
         /\ (last'.walletAction # Null \/ last'.mint # Null))
        => last'.action = "book_anyway"]_vars
  /\ [](last.check = "free" => last.gate /\ last.action # "book_anyway")

\* C3: the turn whose check reports a conflict stops before the payment gate:
\* no wallet action, no mint, the booking is suspended in
\* pendingConflictBooking with awaitingBookAnyway set.  A turn of
\* handleMessage reaches the payment gate only as book_anyway, or as a
\* booking attempt (book_ticket, confirm_booking) whose own pass through the
\* calendar gate reported no conflict; an all-free check reaches the gate in
\* its own turn.
C3_ConflictSuspends ==
  /\ last.check = "busy" =>
       /\ ~last.gate /\ last.walletAction = Null /\ ~Minted
       /\ last.response = "conflict"
       /\ state.awaitingBookAnyway
       /\ state.pendingConflictBooking # Null
       /\ state.pendingConflictBooking.event = last.event
       /\ state.pendingConflictBooking.attendees = last.attendees
  /\ (last.entry = "handleMessage" /\ last.gate) =>
       \/ last.action = "book_anyway" /\ last.fromConflict
       \/ last.action \in {"book_ticket", "confirm_booking"} /\ last.check # "busy"
  /\ last.check = "free" => last.gate /\ last.action # "book_anyway"

\* a turn whose availability check reported a conflict
C3_Witness == last.check = "busy" /\ last.response = "conflict"

\* C6: a turn of handleMessage that is given a calendar token and returns a
\* wallet action or mints server-side has called the availability check for
\* its event with the known attendee emails (the request's, united with the
\* message's), or is the book_anyway of an event whose conflict an earlier
\* check reported, or books an event without date and time.
C6_CheckBeforePayment ==
  (last.entry = "handleMessage" /\ last.token # None
     /\ (last.walletAction # Null \/ Minted)) =>
    \/ /\ last.fromConflict
       /\ conflict # Null /\ conflict.event = last.event /\ conflict.emails # {}
    \/ /\ ~last.fromConflict /\ ~Catalog[last.event].dated
       /\ last.check = "skipped"
    \/ /\ ~last.fromConflict /\ Catalog[last.event].dated
       /\ last.check \in {"free", "failed"}
       /\ last.checkEmails = AllEmails(last.emails, LastMsg)
       /\ last.checkEmails # {}

\* payment requested, with the calendar connected, after an all-free check
C6_Witness ==
  /\ last.entry = "handleMessage" /\ last.token # None
  /\ last.walletAction # Null /\ last.check = "free"

----------------------------------------------------------------------------
\* Suspend and resume

\* C7: while a wallet action is outstanding, the snapshot the client holds is
\* the one the payment gate returned, and the resumption request carries its
\* event, attendees, calendar token and attendee emails unchanged;
\* executePendingBooking mints for that event and those attendees and makes
\* the calendar write exactly when the snapshot has a token and the event is
\* dated.
C7_EchoedSnapshot ==
  client.pending # Null =>
    LET pb == client.pending.pendingBooking
        body == ResumeRequest(client) IN
    /\ last.entry = "handleMessage" => pb = last.pendingBooking
    /\ body.event = pb.event /\ body.attendees = pb.attendees
    /\ body.calendarToken = pb.calendarToken
    /\ body.attendeeEmails = pb.attendeeEmails
    /\ client.publicKey # None =>
         \A r \in ExecuteBookingRoute(state, body) :
           /\ r.out.mint # Null
           /\ r.out.mint.event = pb.event /\ r.out.mint.attendees = pb.attendees
           /\ r.out.token = pb.calendarToken /\ r.out.emails = pb.attendeeEmails
           /\ (r.out.calWrite # None)
                <=> (pb.calendarToken # None /\ Catalog[pb.event].dated)

\* a resumption that carried the calendar context and wrote the calendar event
C7_Witness ==
  /\ last.entry = "executePendingBooking" /\ Minted
  /\ last.token # None /\ last.calWrite # None

\* session states to compare a resumption against: the fresh one, and one
\* with a result cached, a conflict pending and every flag set
OtherSessions ==
  { InitState,
    [ events |-> LiveEvents, matches |-> LiveEvents,
      intent |-> DefaultIntent,
      awaitingConfirmation |-> TRUE, lastPresentedEvents |-> LiveEvents,
      awaitingEmail |-> TRUE,
      lastBookingResult |-> simulateBooking("paid", DefaultAttendees),
      awaitingBookAnyway |-> TRUE,
      pendingConflictBooking |->
        [event |-> "paid", attendees |-> DefaultAttendees, userWallet |-> None],
      calendarChecked |-> TRUE, paymentConfirmed |-> TRUE,
      bookingExecuted |-> TRUE ] }

\* C8: for the request the client is about to post, and for each answer of
\* the booking tool and of the calendar write, executePendingBooking makes
\* the same calls and returns the same response, tickets and bookingResult
\* from the current session state as from any other.
C8_SessionIndependent ==
  (client.pending # Null /\ client.publicKey # None) =>
    LET b == ResumeRequest(client) IN
    \A s2 \in OtherSessions, env \in MintEnvs, cw \in CalWriteOutcomes \cup {None} :
      ResumeMint(state, b.event, b.attendees, b.userWallet, b.paymentTxHash,
                 b.calendarToken, b.attendeeEmails, env, cw).out
      = ResumeMint(s2, b.event, b.attendees, b.userWallet, b.paymentTxHash,
                   b.calendarToken, b.attendeeEmails, env, cw).out

\* a resumption about to run over a session that holds an intent of its own
C8_Witness ==
  /\ client.pending # Null /\ client.publicKey # None
  /\ state.intent # Null /\ state \notin OtherSessions
  /\ state.intent.attendees # client.pending.pendingBooking.attendees

----------------------------------------------------------------------------
\* Email step

\* C9 as stated: after the session was reset, a provide_email turn that
\* carries the client's BookingResult calls the email collaborator with it.
C9_EchoDrivesEmail ==
  [][(/\ ChatTurn
      /\ state = InitState
      /\ last'.cbr # Null
      /\ last'.action = "provide_email")
     => /\ last'.emailCall # Null
        /\ last'.emailCall.bookingResult = last'.cbr
        /\ last'.response # "nothing_to_email"]_vars

\* C9: a provide_email turn that carries the client's BookingResult and whose
\* message holds an address calls the email collaborator with exactly that
\* BookingResult, whatever the session held before (reset or not); the
\* nothing-to-email response is not produced in any turn that carries one.
C9_EchoAndAddressDriveEmail ==
  (last.entry = "handleMessage" /\ last.action = "provide_email"
     /\ last.cbr # Null) =>
    /\ last.response # "nothing_to_email"
    /\ LastMsg.email # None =>
         /\ last.emailCall # Null
         /\ last.emailCall.bookingResult = last.cbr
         /\ last.emailCall.to = LastMsg.email

\* the email went out from a session that held nothing but the restored
\* result: no events, no intent, no progress flag
C9_Witness ==
  /\ last.response = "email_sent" /\ last.cbr # Null
  /\ last.emailCall.bookingResult = last.cbr
  /\ state = InitState

\* C10: a decline while awaiting an email clears awaitingEmail and the
\* cached BookingResult, and the message "my email is a@x.com" on the next
\* turn is not classified provide_email and sends no email.
C10_DeclineThenAddress ==
  /\ []((last.entry = "handleMessage" /\ last.msg = MNoThanks.id
           /\ ~last.llm /\ last.action = "general_question")
        => (~state.awaitingEmail /\ state.lastBookingResult = Null))
  /\ [][(/\ ChatTurn
         /\ last.entry = "handleMessage" /\ last.msg = MNoThanks.id
         /\ ~last.llm /\ last.action = "general_question"
         /\ last'.turn = last.turn + 1
         /\ last'.msg = MMyEmail.id)
        => (last'.action # "provide_email" /\ last'.emailCall = Null)]_vars

----------------------------------------------------------------------------
\* Scenarios

\* the step is the chat turn that directly follows the last call
NextTurn == ChatTurn /\ last'.turn = last.turn + 1

\* C11: when a booking of a dated event E halted at the calendar gate asking
\* for attendee emails, the next turn, whose message holds nothing but the
\* addresses, books the same event E and calls the availability check with
\* those addresses.
C11_AddressesResume ==
  [][(/\ NextTurn
      /\ last.entry = "handleMessage" /\ last.needsEmails
      /\ Catalog[last.event].dated
      /\ last'.msg = MAddresses.id)
     => /\ last'.event = last.event
        /\ last'.check \in CheckOutcomes
        /\ last'.checkEmails = MAddresses.emails]_vars

\* C12: the turn whose check reports a conflict sets awaitingBookAnyway,
\* caches the event, the attendees and the wallet, and returns the conflict
\* prompt with no wallet action and no tickets; the message "book anyway" on
\* the next turn is classified book_anyway without the delegate, reaches the
\* payment gate with the cached event, attendees and wallet, makes no
\* availability call, and clears awaitingBookAnyway and the cached conflict.
C12_BookAnywaySkipsCheck ==
  /\ [](last.check = "busy" =>
         /\ state.awaitingBookAnyway
         /\ state.pendingConflictBooking =
              [event |-> last.event, attendees |-> last.attendees,
               userWallet |-> last.wallet]
         /\ last.response = "conflict"
         /\ last.walletAction = Null /\ last.pendingBooking = Null
         /\ last.tickets = <<>> /\ last.bookingResult = Null /\ ~Minted)
  /\ [][(/\ NextTurn
         /\ last.check = "busy"
         /\ last'.msg = MBookAnyway.id)
        => /\ last'.action = "book_anyway" /\ ~last'.llm
           /\ last'.gate /\ last'.fromConflict
           /\ last'.event = state.pendingConflictBooking.event
           /\ last'.attendees = state.pendingConflictBooking.attendees
           /\ last'.gateWallet = state.pendingConflictBooking.userWallet
           /\ last'.check = "none" /\ last'.checkEmails = NoEmails
           /\ ~state'.awaitingBookAnyway
           /\ state'.pendingConflictBooking = Null]_vars

\* "book anyway" took a conflicted booking through the payment gate
C12_Witness ==
  /\ last.entry = "handleMessage" /\ last.msg = MBookAnyway.id
  /\ last.fromConflict /\ last.gate /\ last.check = "none"
  /\ conflict # Null /\ conflict.event = last.event
  /\ ~state.awaitingBookAnyway

\* C13: a turn of handleMessage whose payment gate is given a wallet identity
\* does not call the mint collaborator; it returns a sign-message action for
\* an event with isFree = true and a transfer action for one with
\* isFree = false, each with the PendingBooking snapshot; a mint for a wallet
\* happens only in executePendingBooking.
C13_WalletGateSuspends ==
  (last.entry = "handleMessage" /\ last.gate /\ last.gateWallet # None) =>
    /\ ~Minted /\ last.tickets = <<>>
    /\ last.walletAction # Null
    /\ Catalog[last.event].isFree => last.walletAction.type = "sign_message"
    /\ ~Catalog[last.event].isFree => last.walletAction.type = "transfer_sol"
    /\ last.pendingBooking # Null
    /\ last.pendingBooking.event = last.event
    /\ last.pendingBooking.attendees = last.attendees

----------------------------------------------------------------------------
\* The classifier on its own: classifyAction applied, twice in a row, to
\* sessions in each combination of the awaiting flags

\* classifications in one run
MaxClassify == 2

\* results and conflicts a session can hold
CachedResults ==
  {simulateBooking(e, a) : e \in {"free", "paid"}, a \in {DefaultAttendees, Group}}

CachedConflicts ==
  {[event |-> e, attendees |-> DefaultAttendees, userWallet |-> w]
     : e \in {"free", "paid"}, w \in Wallets \cup {None}}

\* sessions as the pipeline leaves them: the email offer open with a cached
\* result or closed without, a conflict pending or not, a list presented or not
ClassifySessions ==
  { [InitState EXCEPT !.awaitingEmail = (r # Null), !.lastBookingResult = r,
                      !.awaitingBookAnyway = (c # Null),
                      !.pendingConflictBooking = c,
                      !.awaitingConfirmation = ac]
    : r \in CachedResults \cup {Null}, c \in CachedConflicts \cup {Null},
      ac \in BOOLEAN }

InitClassify ==
  /\ state \in ClassifySessions
  /\ client = InitClient
  /\ last = BlankOut
  /\ conflict = Null
  /\ turns = 0

\* one call of classifyAction: the tag it returns and the session it leaves
Classify(m) ==
  /\ turns < MaxClassify
  /\ \E c \in classifyAction(state, m) :
       /\ state' = c.st
       /\ last' = [BlankOut EXCEPT !.entry = "classifyAction", !.turn = turns + 1,
                                    !.msg = m.id, !.action = c.tag, !.llm = c.llm]
  /\ turns' = turns + 1
  /\ UNCHANGED <<client, conflict>>

NextClassify == \E m \in Messages : Classify(m)

SpecClassify == InitClassify /\ [][NextClassify]_vars

\* the step classifies by a short-circuit
ShortStep == last'.turn # last.turn /\ last'.entry = "classifyAction" /\ ~last'.llm

\* C14 as stated: a short-circuit classification leaves the session as it
\* was, and a message classified twice in a row gets the same tag both times.
C14_ShortCircuitKeepsSession ==
  [][(ShortStep => state' = state)
     /\ ((ShortStep /\ last.entry = "classifyAction" /\ ~last.llm
            /\ last'.msg = last.msg) => last'.action = last.action)]_vars

\* C14: the tag of a short-circuit depends on the message and the two flags
\* awaitingEmail and awaitingBookAnyway only: any session with the same flags
\* gets the same tag.  A short-circuit classification leaves the session as
\* it was except on the two declining branches, which clear the email state
\* or the conflict state; classifying the same message again gives the same
\* tag whenever the first classification left the session as it was.
C14_ShortCircuitByFlags ==
  /\ [](\A m \in Messages, s2 \in ClassifySessions :
          (s2.awaitingEmail = state.awaitingEmail
             /\ s2.awaitingBookAnyway = state.awaitingBookAnyway)
          => {c.tag : c \in classifyAction(s2, m)}
               = {c.tag : c \in classifyAction(state, m)})
  /\ [][ShortStep =>
          \/ state' = state
          \/ /\ last'.action = "general_question" /\ state.awaitingEmail
             /\ state' = [state EXCEPT !.awaitingEmail = FALSE,
                                        !.lastBookingResult = Null]
          \/ /\ last'.action = "search_events" /\ state.awaitingBookAnyway
             /\ state' = [state EXCEPT !.awaitingBookAnyway = FALSE,
                                        !.pendingConflictBooking = Null]]_vars
  /\ [][(ShortStep /\ last.entry = "classifyAction" /\ ~last.llm
           /\ last'.msg = last.msg /\ last.action \notin {"general_question", "search_events"})
         => last'.action = last.action]_vars

\* the same message classified twice by a short-circuit, the first time as a
\* decline that cleared the email state
C14_Witness ==
  /\ last.entry = "classifyAction" /\ last.turn = 2 /\ ~last.llm
  /\ last.msg = MNoThanks.id /\ last.action = "search_events"
  /\ ~state.awaitingEmail /\ ~state.awaitingBookAnyway

----------------------------------------------------------------------------
\* Email gate

\* C15: the email collaborator is called only in a provide_email turn of
\* handleMessage, with the BookingResult the session holds after the restore
\* from the client; a provide_email turn with an address and no such result
\* answers that there is nothing to email and makes no call; and the turn
\* that follows a call whose mint failed on the chain sends no confirmation.
C15_EmailOnlyForCompleted ==
  /\ [][ChatTurn =>
          /\ last'.emailCall # Null =>
               /\ last'.action = "provide_email"
               /\ RestoreFromClient(state, last'.cbr).lastBookingResult # Null
               /\ last'.emailCall.bookingResult
                    = RestoreFromClient(state, last'.cbr).lastBookingResult
          /\ (last'.action = "provide_email" /\ MsgOf(last'.msg).email # None
                /\ RestoreFromClient(state, last'.cbr).lastBookingResult = Null)
               => (last'.response = "nothing_to_email" /\ last'.emailCall = Null)]_vars
  /\ [][(NextTurn /\ last.mint # Null /\ last.mint.outcome = "threw")
         => last'.emailCall = Null]_vars

----------------------------------------------------------------------------
\* Minting

\* C16: every ticket minted on the chain is minted to the owner address the
\* entry point named: the wallet passed to executePendingBooking, and for
\* the server-side free path the address it resolved.
C16_MintedToNamedOwner ==
  (Minted /\ last.mint.outcome = "minted") =>
     last.mint.owner = last.mint.fanWalletAddress

----------------------------------------------------------------------------
\* The booking tool on its own: executeBooking for one event, one list of
\* attendees and one answer of the environment

\* the attendee lists of a request: the default attendee, or named attendees
AttendeeLists ==
  {DefaultAttendees} \cup
  {a \in UNION {[1..n -> 1..MaxGroup] : n \in 1..MaxGroup} :
     \A i, j \in DOMAIN a : a[i] = a[j] => i = j}

\* where the chain call throws: before the loop (wallet file, balance: 0
\* tickets minted before it) or in purchaseAndMintTicket for attendee k + 1
\* (k tickets minted before it)
ThrowPoints(attendees) == 0..(Len(attendees) - 1)

\* the tickets the chain holds once executeBooking has returned: executeBooking
\* has no step that burns or revokes a ticket it minted
ticketsOnChain(attendees, env, k) ==
  IF ~env.merkle \/ ~env.userKey THEN 0
  ELSE IF env.chain = "throw" THEN k
  ELSE Len(attendees)

InitBooking ==
  /\ state = InitState
  /\ client = InitClient
  /\ \E e \in EventIds, a \in AttendeeLists, env \in MintEnvs :
       \E k \in ThrowPoints(a) :
         last = [entry |-> "request", event |-> e, attendees |-> a,
                 env |-> env, minted |-> k]
  /\ conflict = Null
  /\ turns = 0

\* one call of executeBooking
RunBooking ==
  /\ last.entry = "request"
  /\ last' = [entry |-> "executeBooking", event |-> last.event,
               attendees |-> last.attendees,
               outcome |-> MintOutcome("executeBooking", last.env),
               result |-> executeBooking(last.event, last.attendees, last.env),
               onChain |-> ticketsOnChain(last.attendees, last.env, last.minted)]
  /\ turns' = turns + 1
  /\ UNCHANGED <<state, client, conflict>>

NextBooking == RunBooking

SpecBooking == InitBooking /\ [][NextBooking]_vars

\* C17: a booking for n attendees ends with all n tickets or none: when the
\* mint collaborator fails for an attendee, the result holds no ticket and
\* no ticket minted for an earlier attendee is left on the chain; when it
\* does not fail, the result holds one ticket per attendee.
C17_AllOrNothing ==
  last.entry = "executeBooking" =>
    /\ last.outcome = "threw" =>
         (last.result.tickets = <<>> /\ last.onChain = 0)
    /\ last.outcome # "threw" =>
         Len(last.result.tickets) = Len(last.attendees)

----------------------------------------------------------------------------
\* The devnet pricing on its own: the transfer request of the payment gate
\* for one price and one list of attendees

\* ticket prices in cents, $38.89 among them
Prices == {-500, 0, 1, 50, 99, 100, 999, 1000, 2500, 3889, 10000, 12345}

InitPayment ==
  /\ state = InitState
  /\ client = InitClient
  /\ \E p \in Prices, a \in AttendeeLists :
       last = [entry |-> "request", price |-> p, attendees |-> a]
  /\ conflict = Null
  /\ turns = 0

\* the amounts the wallet branch of proceedToPayment computes for a paid event
Quote ==
  /\ last.entry = "request"
  /\ last' = [entry |-> "proceedToPayment", price |-> last.price,
               attendees |-> last.attendees,
               solAmount |-> calculateDevnetSol(last.price),
               walletAction |-> TransferAction(last.price, Len(last.attendees))]
  /\ turns' = turns + 1
  /\ UNCHANGED <<state, client, conflict>>

NextPayment == Quote

SpecPayment == InitPayment /\ [][NextPayment]_vars

\* C18: the per-ticket amount is the price divided by 10000 (0 for a price
\* of 0 or less), and the amount of the transfer action is the per-ticket
\* amount times the number of attendees; a $38.89 ticket for one attendee
\* requests 0.003889.  Prices in cents, amounts in millionths.
C18_DevnetAmount ==
  last.entry = "proceedToPayment" =>
    /\ last.price <= 0 => last.solAmount = 0
    /\ last.price > 0 =>
         last.solAmount * DevnetDivisor = last.price * 10000
    /\ last.walletAction.type = "transfer_sol"
    /\ last.walletAction.amount = last.solAmount * Len(last.attendees)
    /\ (last.price = 3889 /\ Len(last.attendees) = 1)
         => last.walletAction.amount = 3889

\* the amounts for a $38.89 ticket and two attendees
C18_Witness ==
  /\ last.entry = "proceedToPayment" /\ last.price = 3889
  /\ Len(last.attendees) = 2 /\ last.walletAction.amount = 7778

----------------------------------------------------------------------------
\* The matcher on its own: matchEvents for one list of events, one intent
\* and one set of free slots

\* length of the event list handed to the matcher
MaxEvents == 2

EventLists == UNION {[1..n -> EventIds] : n \in 1..MaxEvents}

\* intents: with and without a budget of $10, a demand for free or paid
\* events, "next 7 days", a weekend or a Tuesday preference, a genre, a
\* calendar check
MatchIntents ==
  { Intent(DefaultAttendees, hb, 1000, nf, np, nd, pd, g, cc)
    : hb \in BOOLEAN, nf \in BOOLEAN, np \in BOOLEAN, nd \in {0, 7},
      pd \in {{}, {"weekend"}, {"tue"}}, g \in {{}, {"jazz"}}, cc \in BOOLEAN }

\* free slots: none handed over, or every attendee free in three days
MatchSlots == {NoSlots, [given |-> TRUE, days |-> {3}]}

InitMatch ==
  /\ state = InitState
  /\ client = InitClient
  /\ \E es \in EventLists, i \in MatchIntents, fs \in MatchSlots :
       last = [entry |-> "request", events |-> es, intent |-> i, freeSlots |-> fs]
  /\ conflict = Null
  /\ turns = 0

\* one call of matchEvents
Match ==
  /\ last.entry = "request"
  /\ last' = [entry |-> "matchEvents", events |-> last.events,
               intent |-> last.intent, freeSlots |-> last.freeSlots,
               result |-> matchEvents(last.events, last.intent, last.freeSlots)]
  /\ turns' = turns + 1
  /\ UNCHANGED <<state, client, conflict>>

NextMatch == Match

SpecMatch == InitMatch /\ [][NextMatch]_vars

\* C19: with a budget ceiling set, matchEvents returns no event whose price
\* is above the ceiling.
C19_NoneOverBudget ==
  (last.entry = "matchEvents" /\ last.intent.hasBudget) =>
    \A i \in DOMAIN last.result :
      Catalog[last.result[i]].price <= last.intent.budget

\* of a cheap and a dear event, both on a day every attendee is free or
\* not, the matcher returned the cheap one alone
C19_Witness ==
  /\ last.entry = "matchEvents" /\ last.intent.hasBudget
  /\ last.events = <<"paid", "gig">> /\ last.result = <<"gig">>

\* the four hard exclusion rules
HardExcluded(e, intent) ==
  \/ e.parsed /\ e.day < 0
  \/ /\ detectTimeRange(intent).set
     /\ \/ ~e.parsed
        \/ e.day < detectTimeRange(intent).start
        \/ e.day > detectTimeRange(intent).end
  \/ intent.hasBudget /\ e.price > intent.budget
  \/ intent.notesFree /\ ~e.isFree

\* C20: an event is missing from the result of matchEvents only if one of
\* the four hard exclusion rules applies to it or the result is cut at 15;
\* an event with soft penalties only is in the result.
C20_OnlyHardRulesExclude ==
  last.entry = "matchEvents" =>
    \A i \in DOMAIN last.events :
      last.events[i] \notin Range(last.result) =>
        \/ HardExcluded(Catalog[last.events[i]], last.intent)
        \/ Len(last.result) >= TopMatches

----------------------------------------------------------------------------
\* Awaiting flags

\* the number of awaiting flags a session has set
AwaitingCount(st) ==
  (IF st.awaitingConfirmation THEN 1 ELSE 0)
  + (IF st.awaitingBookAnyway THEN 1 ELSE 0)
  + (IF st.awaitingEmail THEN 1 ELSE 0)

\* C21: in every reachable session state at most one of awaitingConfirmation,
\* awaitingBookAnyway and awaitingEmail is true.
C21_OneAwaitingFlag == AwaitingCount(state) <= 1

----------------------------------------------------------------------------
\* Failures of the collaborators

\* the step is a call of an entry point that invoked the mint collaborator
MintStep == last' # last /\ last'.mint # Null

\* C22: when the mint collaborator fails during a booking, in either entry
\* point, the call reports a failure: the booking-failed response, no tickets
\* and no bookingResult, and awaitingEmail and lastBookingResult stay as the
\* call found them (after the restore from the client).
C22_MintFailureIsFailure ==
  /\ []((Minted /\ last.mint.outcome = "threw") =>
          /\ last.response = "booking_failed"
          /\ last.tickets = <<>>
          /\ last.bookingResult = Null)
  /\ [][(MintStep /\ last'.mint.outcome = "threw") =>
          /\ state'.awaitingEmail
               = RestoreFromClient(state, last'.cbr).awaitingEmail
          /\ state'.lastBookingResult
               = RestoreFromClient(state, last'.cbr).lastBookingResult]_vars

\* the chat turn of this step resolves its target event and enters
\* executeAndRespond: a book_ticket whose message names a discovered event,
\* or a confirm_booking with a position of the presented list
EntersGate ==
  /\ ChatTurn
  /\ \/ /\ last'.action = "book_ticket"
        /\ findEventByName(state'.events, MsgOf(last'.msg)) # None
     \/ /\ last'.action = "confirm_booking"
        /\ state.awaitingConfirmation
        /\ MsgOf(last'.msg).ordinal \in 1..Len(state.lastPresentedEvents)

\* C23: a booking turn that is handed a calendar token while no attendee
\* email is known (none in the request, none in the message) stops at the
\* calendar gate: needsEmails = true, no availability call, no wallet action,
\* no mint, and no awaiting flag true that was not true before the turn; and
\* needsEmails is true in no other response.
C23_NoEmailsHalts ==
  /\ [][(/\ EntersGate
         /\ last'.token # None
         /\ AllEmails(last'.emails, MsgOf(last'.msg)) = {})
        => /\ last'.needsEmails /\ last'.response = "needs_emails"
           /\ last'.check = "none" /\ ~last'.gate
           /\ last'.walletAction = Null /\ last'.pendingBooking = Null
           /\ last'.mint = Null /\ last'.tickets = <<>>
           /\ state'.awaitingConfirmation => state.awaitingConfirmation
           /\ state'.awaitingBookAnyway => state.awaitingBookAnyway
           /\ state'.awaitingEmail => state.awaitingEmail]_vars
  /\ [](last.needsEmails =>
          /\ last.entry = "handleMessage"
          /\ last.action \in {"book_ticket", "confirm_booking"}
          /\ last.token # None
          /\ AllEmails(last.emails, LastMsg) = {}
          /\ last.response = "needs_emails")

\* a booking of a named event halted for want of attendee emails
C23_Witness ==
  /\ last.needsEmails /\ last.action = "book_ticket" /\ last.token # None
  /\ last.event = LastMsg.names

\* the responses the payment gate ends a turn with
GateResponses ==
  {"sign_request", "payment_request", "connect_wallet", "booking_confirmed_real",
   "booking_confirmed_demo", "booking_failed"}

\* C24: when the availability call fails outright, the booking is not
\* blocked: the same turn goes on to the payment gate, awaitingBookAnyway is
\* not set and no conflict is cached, and the turn has no calendar_clear
\* record, so the response does not say the attendees were confirmed free.
C24_FailedCheckProceeds ==
  /\ [](last.check = "failed" =>
          /\ last.gate /\ last.response \in GateResponses
          /\ ~last.calendarClear)
  /\ [][(ChatTurn /\ last'.check = "failed") =>
          /\ state'.awaitingBookAnyway => state.awaitingBookAnyway
          /\ state'.pendingConflictBooking = state.pendingConflictBooking
          /\ state'.calendarChecked]_vars
  /\ [](last.calendarClear <=> last.check = "free")

\* the check failed and the turn asked the wallet for the payment
C24_Witness ==
  /\ last.check = "failed" /\ last.gate
  /\ last.walletAction # Null /\ ~state.awaitingBookAnyway

----------------------------------------------------------------------------
\* The availability check on its own: checkCalendarForEvent for one list of
\* attendee emails and one answer of the FreeBusy service

\* number of attendee emails in one check
MaxChecked == 2

EmailLists == UNION {[1..n -> {EmailA, EmailB}] : n \in 0..MaxChecked}

\* busy intervals the service reports inside the checked window
BusyLists == {<<>>, <<"b1">>, <<"b1", "b2">>}

\* data.calendars[email]: missing, or the calendar's errors and busy blocks
Missing == [missing |-> TRUE]
CalData == {Missing} \cup [errors : {<<>>, <<"notFound">>}, busy : BusyLists]

\* the answer of the service: the HTTP status, or a thrown error
HttpOutcomes == {"ok", "401", "500", "throw"}

\* the failure result of checkCalendarForEvent
CheckFailed(error) ==
  [success |-> FALSE, attendees |-> <<>>, allFree |-> TRUE, error |-> error]

\* an attendee record that counts a calendar with an error as busy
AttendeeReport_ErrorsBlock(email, calData) ==
  IF calData = Missing THEN
    [email |-> email, busy |-> <<>>, isFree |-> FALSE, error |-> "not accessible"]
  ELSE IF Len(calData.errors) > 0 THEN
    [email |-> email, busy |-> <<>>, isFree |-> FALSE, error |-> calData.errors[1]]
  ELSE
    [email |-> email, busy |-> calData.busy, isFree |-> Len(calData.busy) = 0,
     error |-> None]

\* the record checkCalendarForEvent builds for one attendee
AttendeeReport(email, calData) ==
  IF calData = Missing THEN
    [email |-> email, busy |-> <<>>, isFree |-> TRUE, error |-> "not accessible"]
  ELSE IF Len(calData.errors) > 0 THEN
    [email |-> email, busy |-> <<>>, isFree |-> TRUE, error |-> calData.errors[1]]
  ELSE
    [email |-> email, busy |-> calData.busy, isFree |-> Len(calData.busy) = 0,
     error |-> None]

\* checkCalendarForEvent
checkCalendarForEvent(calendarToken, attendeeEmails, parseable, http, calendars) ==
  IF calendarToken = None \/ Len(attendeeEmails) = 0
    THEN CheckFailed("No calendar token or emails")
  ELSE IF ~parseable THEN CheckFailed("Could not parse event time")
  ELSE IF http = "401" THEN CheckFailed("Calendar token expired")
  ELSE IF http = "500" THEN CheckFailed("API error")
  ELSE IF http = "throw" THEN CheckFailed("thrown")
  ELSE
    LET attendees == [i \in DOMAIN attendeeEmails |->
                        AttendeeReport(attendeeEmails[i], calendars[attendeeEmails[i]])] IN
    [success |-> TRUE, attendees |-> attendees,
     allFree |-> \A i \in DOMAIN attendees : attendees[i].isFree,
     error |-> None]

InitCalendar ==
  /\ state = InitState
  /\ client = InitClient
  /\ \E t \in Tokens \cup {None}, es \in EmailLists, p \in BOOLEAN,
        h \in HttpOutcomes, cals \in [{EmailA, EmailB} -> CalData] :
       last = [entry |-> "request", token |-> t, emails |-> es, parseable |-> p,
               http |-> h, calendars |-> cals]
  /\ conflict = Null
  /\ turns = 0

\* one call of checkCalendarForEvent
Check ==
  /\ last.entry = "request"
  /\ last' = [entry |-> "checkCalendarForEvent", emails |-> last.emails,
               calendars |-> last.calendars,
               result |-> checkCalendarForEvent(last.token, last.emails,
                                                last.parseable, last.http,
                                                last.calendars)]
  /\ turns' = turns + 1
  /\ UNCHANGED <<state, client, conflict>>

NextCalendar == Check

SpecCalendar == InitCalendar /\ [][NextCalendar]_vars

\* the service reports a busy interval for the attendee's calendar
ReportedBusy(calData) ==
  calData # Missing /\ Len(calData.errors) = 0 /\ Len(calData.busy) > 0

\* C25: in every successful availability report, allFree is true exactly
\* when no attendee record has a busy interval; an attendee whose calendar
\* is missing from the answer or carries a per-calendar error is counted as
\* free, and one attendee for whom the service reports a busy interval makes
\* allFree false.
C25_AllFreeAggregate ==
  (last.entry = "checkCalendarForEvent" /\ last.result.success) =>
    LET r == last.result
        cal(i) == last.calendars[last.emails[i]] IN
    /\ Len(r.attendees) = Len(last.emails)
    /\ r.allFree <=> \A i \in DOMAIN r.attendees : r.attendees[i].busy = <<>>
    /\ \A i \in DOMAIN r.attendees :
         (cal(i) = Missing \/ Len(cal(i).errors) > 0)
           => (r.attendees[i].isFree /\ r.attendees[i].busy = <<>>
                 /\ r.attendees[i].error # None)
    /\ (\E i \in DOMAIN r.attendees : ReportedBusy(cal(i))) => ~r.allFree
    /\ (\A i \in DOMAIN r.attendees : ~ReportedBusy(cal(i))) => r.allFree

\* two attendees, one with an inaccessible calendar and one with a busy
\* interval: the report is not all-free
C25_Witness ==
  /\ last.entry = "checkCalendarForEvent" /\ last.result.success
  /\ Len(last.emails) = 2
  /\ last.calendars[last.emails[1]] = Missing
  /\ ReportedBusy(last.calendars[last.emails[2]])
  /\ ~last.result.allFree /\ last.result.attendees[1].isFree

----------------------------------------------------------------------------
\* Calendar write

\* what a booking call leaves apart from the record of the calendar write
BookingOutcome(r) ==
  [st |-> r.st, response |-> r.out.response, tickets |-> r.out.tickets,
   bookingResult |-> r.out.bookingResult, mint |-> r.out.mint]

\* C26: the calendar write is attempted only in a call that was handed a
\* calendar token, whose mint succeeded and whose event has date and time;
\* and the booking comes out the same whether the write succeeds or fails:
\* the same tickets and bookingResult, lastBookingResult cached and
\* awaitingEmail set.
C26_CalendarWriteSecondary ==
  /\ last.calWrite # None =>
       /\ last.token # None /\ Catalog[last.event].dated
       /\ Minted /\ last.mint.outcome # "threw"
       /\ last.calWrite \in CalWriteOutcomes
       /\ last.bookingResult # Null /\ last.bookingResult.success
       /\ last.tickets = last.bookingResult.tickets /\ last.tickets # <<>>
       /\ state.lastBookingResult = last.bookingResult
       /\ state.awaitingEmail
  /\ (client.pending # Null /\ client.publicKey # None) =>
       LET b == ResumeRequest(client) IN
       \A env \in MintEnvs :
         BookingOutcome(ResumeMint(state, b.event, b.attendees, b.userWallet,
                                   b.paymentTxHash, b.calendarToken,
                                   b.attendeeEmails, env, "ok"))
         = BookingOutcome(ResumeMint(state, b.event, b.attendees, b.userWallet,
                                     b.paymentTxHash, b.calendarToken,
                                     b.attendeeEmails, env, "failed"))
  /\ (last.entry = "handleMessage" /\ Minted) =>
       \A env \in MintEnvs :
         BookingOutcome(ServerSideMint(state, last.event, last.attendees,
                                       last.token, last.emails, last, env, "ok"))
         = BookingOutcome(ServerSideMint(state, last.event, last.attendees,
                                         last.token, last.emails, last, env, "failed"))

----------------------------------------------------------------------------
\* Email offer

\* C27: after every successful mint, through either entry point, the session
\* holds that booking's result in lastBookingResult with awaitingEmail set,
\* and the response returns the same BookingResult to the client; after a
\* failed booking the returned bookingResult is null.
C27_SuccessOffersEmail ==
  /\ (Minted /\ last.mint.outcome # "threw") =>
       /\ last.bookingResult # Null
       /\ last.bookingResult.success
       /\ last.bookingResult.event = last.mint.event
       /\ last.bookingResult.tickets = last.tickets
       /\ Len(last.tickets) = Len(last.mint.attendees)
       /\ state.lastBookingResult = last.bookingResult
       /\ state.awaitingEmail
  /\ (Minted /\ last.mint.outcome = "threw") => last.bookingResult = Null

\* C28: a provide_email turn in which the email collaborator reports success
\* ends with awaitingEmail false and lastBookingResult null, and with every
\* other session field (events, matches, presented list, intent, conflict
\* state, progress flags) as it was before the turn.
C28_EmailSentClearsOffer ==
  [][(ChatTurn /\ last'.emailCall # Null /\ last'.emailCall.success) =>
       /\ last'.action = "provide_email" /\ last'.response = "email_sent"
       /\ ~state'.awaitingEmail /\ state'.lastBookingResult = Null
       /\ state' = [state EXCEPT !.awaitingEmail = FALSE,
                                  !.lastBookingResult = Null]]_vars

\* the email went out from a session that holds a presented list, an intent
\* and progress flags of the booking
C28_Witness ==
  /\ last.response = "email_sent" /\ last.emailCall.success
  /\ ~state.awaitingEmail /\ state.lastBookingResult = Null
  /\ state.lastPresentedEvents # <<>> /\ state.intent # Null
  /\ state.bookingExecuted /\ state.calendarChecked

\* the step is a provide_email turn whose send failed, or whose message
\* holds no address
EmailNotSent ==
  /\ ChatTurn /\ last'.action = "provide_email"
  /\ \/ last'.response = "no_address_found"
     \/ last'.emailCall # Null /\ ~last'.emailCall.success

\* C29: a provide_email turn whose send fails, or whose message holds no
\* address, leaves the session as the turn found it (with the client's
\* BookingResult restored): a cached lastBookingResult and awaitingEmail keep
\* their values, and a provide_email turn that follows with an address calls
\* the email collaborator again with the same BookingResult.
C29_FailedSendRetryable ==
  /\ [][EmailNotSent =>
          /\ state' = RestoreFromClient(state, last'.cbr)
          /\ state.lastBookingResult # Null =>
               /\ state'.lastBookingResult = state.lastBookingResult
               /\ state'.awaitingEmail = state.awaitingEmail]_vars
  /\ [][(/\ NextTurn
         /\ last.entry = "handleMessage" /\ last.action = "provide_email"
         /\ last.response \in {"email_failed", "no_address_found"}
         /\ state.lastBookingResult # Null
         /\ last'.action = "provide_email" /\ MsgOf(last'.msg).email # None)
        => /\ last'.emailCall # Null
           /\ last'.emailCall.bookingResult = state.lastBookingResult
           /\ last.emailCall # Null
                => last'.emailCall.bookingResult = last.emailCall.bookingResult]_vars

\* the send failed and the result is still cached for a retry
C29_Witness ==
  /\ last.response = "email_failed" /\ ~last.emailCall.success
  /\ state.awaitingEmail
  /\ state.lastBookingResult = last.emailCall.bookingResult

\* C29 as stated: a provide_email turn whose send fails, or whose message
\* holds no address, ends with the session state it began with, and a
\* provide_email turn that follows with an address sends the same
\* BookingResult again.
C29_FailedSendKeepsSession ==
  /\ [][EmailNotSent => state' = state]_vars
  /\ [][(/\ NextTurn
         /\ last.entry = "handleMessage" /\ last.action = "provide_email"
         /\ last.emailCall # Null /\ ~last.emailCall.success
         /\ last'.action = "provide_email" /\ MsgOf(last'.msg).email # None)
        => /\ last'.emailCall # Null
           /\ last'.emailCall.bookingResult = last.emailCall.bookingResult]_vars

----------------------------------------------------------------------------
\* Progress flags

\* the step is a chat turn classified book_ticket
BookTicketTurn == ChatTurn /\ last'.action = "book_ticket"

\* the progress flags after a book_ticket turn are those of this attempt
\* alone: calendarChecked when its calendar gate was passed, bookingExecuted
\* when it called the mint, paymentConfirmed never
FreshProgress ==
  /\ state'.calendarChecked <=> (last'.check # "none" \/ last'.gate)
  /\ ~state'.paymentConfirmed
  /\ state'.bookingExecuted <=> last'.mint # Null

\* C30 as stated: a book_ticket turn resets calendarChecked, paymentConfirmed
\* and bookingExecuted before any gate runs, and ends with awaitingEmail and
\* lastBookingResult as they were before the turn unless it completes a mint.
C30_NewAttemptKeepsEmailState ==
  [][BookTicketTurn =>
       /\ FreshProgress
       /\ last'.mint = Null =>
            /\ state'.awaitingEmail = state.awaitingEmail
            /\ state'.lastBookingResult = state.lastBookingResult]_vars

\* C30: a book_ticket turn resets calendarChecked, paymentConfirmed and
\* bookingExecuted before any gate runs; unless it completes a mint, it ends
\* with awaitingEmail and lastBookingResult as they were after the restore
\* of the client's BookingResult, so an email offer the session held before
\* the turn is still open after it.
C30_NewAttemptKeepsOffer ==
  [][BookTicketTurn =>
       /\ FreshProgress
       /\ last'.mint = Null =>
            /\ state'.awaitingEmail
                 = RestoreFromClient(state, last'.cbr).awaitingEmail
            /\ state'.lastBookingResult
                 = RestoreFromClient(state, last'.cbr).lastBookingResult
            /\ state.lastBookingResult # Null =>
                 /\ state'.lastBookingResult = state.lastBookingResult
                 /\ state'.awaitingEmail = state.awaitingEmail
       /\ last'.mint # Null =>
            /\ state'.lastBookingResult = last'.bookingResult
            /\ state'.awaitingEmail]_vars

\* a new attempt after a completed booking: the progress flags of the paid
\* resumption are gone, the email offer is still open
C30_Witness ==
  /\ last.entry = "handleMessage" /\ last.action = "book_ticket"
  /\ last.turn > 1 /\ ~Minted
  /\ ~state.calendarChecked /\ ~state.paymentConfirmed /\ ~state.bookingExecuted
  /\ state.awaitingEmail /\ state.lastBookingResult # Null

----------------------------------------------------------------------------
\* Cancel and reset

\* the last call was a cancel turn or the "/reset" command
WasReset ==
  \/ last.entry = "handleMessage" /\ last.action = "cancel"
  \/ last.entry = "reset"

\* C31: a turn classified cancel, and the "/reset" command, leave the session
\* idle: all awaiting flags and progress flags false, events, matches,
\* lastPresentedEvents, intent, lastBookingResult and pendingConflictBooking
\* empty; a confirm_booking or book_anyway on the next turn reaches no gate:
\* no availability call, no wallet action, no mint.
C31_CancelReturnsToIdle ==
  /\ [](WasReset =>
          /\ state = InitState
          /\ AwaitingCount(state) = 0
          /\ ~state.calendarChecked /\ ~state.paymentConfirmed
          /\ ~state.bookingExecuted
          /\ state.lastPresentedEvents = <<>> /\ state.intent = Null
          /\ state.lastBookingResult = Null
          /\ state.pendingConflictBooking = Null)
  /\ [][(NextTurn /\ WasReset
           /\ last'.action \in {"confirm_booking", "book_anyway"})
        => /\ ~last'.gate /\ last'.check = "none" /\ ~last'.needsEmails
           /\ last'.walletAction = Null /\ last'.mint = Null
           /\ last'.tickets = <<>>
           /\ last'.action = "book_anyway"
                => last'.response = "no_pending_booking"
           /\ last'.action = "confirm_booking"
                => last'.response = "event_list"]_vars

\* a cancel after a booking: the client still holds the BookingResult, the
\* session holds nothing
C31_Witness ==
  /\ last.entry = "handleMessage" /\ last.action = "cancel"
  /\ last.turn > 1 /\ client.lastBookingResult # Null
  /\ state = InitState

----------------------------------------------------------------------------
\* The client between the wallet request and the resumption

\* the step is a resumption call
ResumeStep == last' # last /\ last'.entry = "executePendingBooking"

\* the step drops the outstanding wallet action without a resumption call
DropStep == client.pending # Null /\ client'.pending = Null /\ ~ResumeStep

----------------------------------------------------------------------------
\* Intent extraction on its own: extractIntent for one outcome of the
\* extraction delegate, in a search or a booking turn

\* what the delegate's answer holds: text that is not JSON, the JSON literal
\* null, no content at all (read as "{}"), or an object with the fields of
\* an intent
ParsedIntents ==
  { Intent(a, hb, 1000, FALSE, FALSE, 0, pd, g, cc)
    : a \in {<<>>, Group}, hb \in BOOLEAN, pd \in {{}, {"weekend"}},
      g \in {{}, {"jazz"}}, cc \in BOOLEAN }

Contents ==
  {[kind |-> k, parsed |-> DefaultIntent] : k \in {"not_json", "null", "empty"}}
    \cup {[kind |-> "object", parsed |-> p] : p \in ParsedIntents}

\* the delegate: GROQ_API_KEY set or not, the completion call returning or
\* throwing, and the content of its answer
Delegates ==
  [key : BOOLEAN, call : {"returned", "threw"}, content : Contents]

\* some step of the extraction fails
ExtractionFails(d) ==
  \/ ~d.key
  \/ d.call = "threw"
  \/ d.content.kind \in {"not_json", "null"}

\* extractIntent: getLLMClient() is called before the try block and throws
\* without a key; inside the try, a throwing call, text that does not parse
\* and a null object are caught and give the default intent; an empty answer
\* parses as {} and gives an intent with no attendee
extractIntent(d) ==
  IF ~d.key THEN [thrown |-> TRUE, intent |-> Null]
  ELSE IF d.call = "threw" \/ d.content.kind \in {"not_json", "null"}
    THEN [thrown |-> FALSE, intent |-> DefaultIntent]
  ELSE IF d.content.kind = "empty"
    THEN [thrown |-> FALSE,
          intent |-> Intent(<<>>, FALSE, 0, FALSE, FALSE, 0, {}, {}, FALSE)]
  ELSE [thrown |-> FALSE, intent |-> d.content.parsed]

\* the catch of handleMessage around the handlers: an error thrown by
\* extractIntent ends the turn with the generic error response
IntentTurn(d) ==
  IF extractIntent(d).thrown THEN "error" ELSE "continues"

InitIntent ==
  /\ state = InitState
  /\ client = InitClient
  /\ \E a \in {"search_events", "book_ticket"}, d \in Delegates :
       last = [entry |-> "request", action |-> a, delegate |-> d]
  /\ conflict = Null
  /\ turns = 0

\* one search or booking turn up to the end of extractIntent
Extract ==
  /\ last.entry = "request"
  /\ last' = [entry |-> "extractIntent", action |-> last.action,
               delegate |-> last.delegate,
               thrown |-> extractIntent(last.delegate).thrown,
               intent |-> extractIntent(last.delegate).intent,
               response |-> IntentTurn(last.delegate)]
  /\ turns' = turns + 1
  /\ UNCHANGED <<state, client, conflict>>

NextIntent == Extract

SpecIntent == InitIntent /\ [][NextIntent]_vars

\* C33: extractIntent never throws: when the construction of the client,
\* the call or the parsing of the answer fails it returns the default
\* intent, and the turn continues instead of ending in the generic error
\* response.
C33_ExtractIntentNeverThrows ==
  last.entry = "extractIntent" =>
    /\ ~last.thrown
    /\ last.response # "error"
    /\ ExtractionFails(last.delegate) => last.intent = DefaultIntent

----------------------------------------------------------------------------
\* Discovery and the presented list

\* the step is a chat turn that ran discovery: a search or a booking request
DiscoveryTurn == ChatTurn /\ last'.action \in {"search_events", "book_ticket"}

\* C34: a search or booking turn leaves in the session the live list or,
\* when discovery failed, the static list; the list is not empty, and the
\* list cached in lastPresentedEvents (and shown, when the turn answers with
\* a list) is not empty either: it is what the matcher returned or, when the
\* matcher returned nothing, every discovered event.
C34_NeverEmptyList ==
  [][DiscoveryTurn =>
       LET ms == matchEvents(state'.events, state'.intent, NoSlots) IN
       /\ state'.events \in {LiveEvents, getStaticEventData}
       /\ state'.events # <<>>
       /\ state'.lastPresentedEvents # <<>>
       /\ state'.matches = state'.lastPresentedEvents
       /\ state'.intent # Null
       /\ ms = <<>> => state'.lastPresentedEvents = state'.events
       /\ ms # <<>> => state'.lastPresentedEvents = ms
       /\ last'.response = "event_list"
            => last'.events = state'.lastPresentedEvents]_vars

\* a turn whose intent no discovered event meets presented all of them
C34_Witness ==
  /\ last.entry = "handleMessage" /\ last.response = "event_list"
  /\ state.intent # Null
  /\ matchEvents(state.events, state.intent, NoSlots) = <<>>
  /\ state.lastPresentedEvents = LiveEvents
  /\ last.events = LiveEvents

----------------------------------------------------------------------------
\* The time-window parser on its own: detectTimeRange on the text of the
\* notes, the preferred days and today's date

\* the notes a user's request leaves in additionalNotes, as the characters
\* String.includes and the regular expressions read
Notes ==
  [ none |-> <<>>,
    thisWeekend |-> <<"t", "h", "i", "s", " ", "w", "e", "e", "k", "e", "n", "d">>,
    thisWeekendCaps |-> <<"T", "h", "i", "s", " ", "W", "e", "e", "k", "e", "n", "d">>,
    weekend |-> <<"w", "e", "e", "k", "e", "n", "d">>,
    thisWeek |-> <<"t", "h", "i", "s", " ", "w", "e", "e", "k">>,
    nextWeek |-> <<"n", "e", "x", "t", " ", "w", "e", "e", "k">>,
    bothWeeks |-> <<"t", "h", "i", "s", " ", "w", "e", "e", "k", " ", "a", "n", "d", " ", "n", "e", "x", "t", " ", "w", "e", "e", "k">>,
    next7Days |-> <<"n", "e", "x", "t", " ", "7", " ", "d", "a", "y", "s">>,
    twoWeeks |-> <<"t", "w", "o", " ", "w", "e", "e", "k", "s">>,
    thisMonth |-> <<"t", "h", "i", "s", " ", "m", "o", "n", "t", "h">>,
    today |-> <<"t", "o", "d", "a", "y">>,
    tomorrow |-> <<"t", "o", "m", "o", "r", "r", "o", "w">>,
    aWeek |-> <<"a", " ", "w", "e", "e", "k">> ]

NoteTexts ==
  {Notes.none, Notes.thisWeekend, Notes.thisWeekendCaps, Notes.weekend, Notes.thisWeek, Notes.nextWeek, Notes.bothWeeks,
   Notes.next7Days, Notes.twoWeeks, Notes.thisMonth, Notes.today, Notes.tomorrow, Notes.aWeek}

\* the phrases detectTimeRange looks for
Phrases ==
  [ weekend |-> <<"w", "e", "e", "k", "e", "n", "d">>,
    thisWeekend |-> <<"t", "h", "i", "s", " ", "w", "e", "e", "k", "e", "n", "d">>,
    thisWeek |-> <<"t", "h", "i", "s", " ", "w", "e", "e", "k">>,
    nextWeek |-> <<"n", "e", "x", "t", " ", "w", "e", "e", "k">>,
    next |-> <<"n", "e", "x", "t">>,
    bothWeeks |-> <<"b", "o", "t", "h", " ", "w", "e", "e", "k", "s">>,
    twoWeeks |-> <<"t", "w", "o", " ", "w", "e", "e", "k", "s">>,
    n2Weeks |-> <<"2", " ", "w", "e", "e", "k", "s">>,
    coupleOfWeeks |-> <<"c", "o", "u", "p", "l", "e", " ", "o", "f", " ", "w", "e", "e", "k", "s">>,
    thisMonth |-> <<"t", "h", "i", "s", " ", "m", "o", "n", "t", "h">>,
    today |-> <<"t", "o", "d", "a", "y">>,
    tonight |-> <<"t", "o", "n", "i", "g", "h", "t">>,
    tomorrow |-> <<"t", "o", "m", "o", "r", "r", "o", "w">>,
    week |-> <<"w", "e", "e", "k">>,
    within |-> <<"w", "i", "t", "h", "i", "n">>,
    in |-> <<"i", "n">>,
    days |-> <<"d", "a", "y", "s">> ]

\* the preferred days of the intent
DayLists == {{}, {"weekend"}, {"Weekend"}, {"saturday"}}

\* String.toLowerCase, for the capitals the texts of this module use
LowerChar(c) ==
  IF c = "T" THEN "t" ELSE IF c = "W" THEN "w" ELSE IF c = "B" THEN "b" ELSE c
toLowerCase(s) == [i \in DOMAIN s |-> LowerChar(s[i])]
LowerDay(d) == IF d = "Weekend" THEN "weekend" ELSE d

\* String.includes
Includes(s, p) ==
  \E i \in 1..(Len(s) - Len(p) + 1) : SubSeq(s, i, i + Len(p) - 1) = p

\* the digits of the n-days phrase
Digits == <<"0", "1", "2", "3", "4", "5", "6", "7", "8", "9">>
Digit(n) == Digits[n + 1]

\* notes.match(/(?:next|within|in)\s+(\d+)\s*days/): the numbers n for which
\* the notes hold "next n days", "within n days" or "in n days" (one space,
\* one digit; "ndays" too)
NDaysMatch(notes) ==
  { n \in 0..(Len(Digits) - 1) :
      \E w \in {Phrases.next, Phrases.within, Phrases.in} :
        \/ Includes(notes, w \o <<" ", Digit(n), " ">> \o Phrases.days)
        \/ Includes(notes, w \o <<" ", Digit(n)>> \o Phrases.days) }

\* today's day of the week (Date.getDay: 0 is Sunday) and the days left in
\* the month
DaysOfWeek == 0..6
MonthEnds == {2, 20}

\* a time range in whole days from today: start at 00:00 of its day, end at
\* 23:59:59.999 of its day
TimeRange(start, end) == [set |-> TRUE, start |-> start, end |-> end]
NoTimeRange == [set |-> FALSE, start |-> 0, end |-> 0]

\* detectTimeRange, branch by branch in the order of the source
detectTimeRangeOfText(additionalNotes, preferredDays, dayOfWeek, monthEnd) ==
  LET notes == toLowerCase(additionalNotes)
      days == {LowerDay(d) : d \in preferredDays}
      diffToMonday == IF dayOfWeek = 0 THEN -6 ELSE 1 - dayOfWeek
      thisMonday == diffToMonday
      thisSunday == thisMonday + 6
      nextSunday == thisMonday + 13 IN
  IF NDaysMatch(notes) # {}
    THEN TimeRange(0, CHOOSE n \in NDaysMatch(notes) : TRUE)
  ELSE IF Includes(notes, Phrases.twoWeeks) \/ Includes(notes, Phrases.n2Weeks)
          \/ Includes(notes, Phrases.coupleOfWeeks)
    THEN TimeRange(0, nextSunday)
  ELSE IF \/ Includes(notes, Phrases.thisWeek) /\ Includes(notes, Phrases.nextWeek)
          \/ Includes(notes, Phrases.thisWeek) /\ Includes(notes, Phrases.next)
          \/ Includes(notes, Phrases.bothWeeks)
    THEN TimeRange(thisMonday, nextSunday)
  ELSE IF Includes(notes, Phrases.nextWeek) /\ ~Includes(notes, Phrases.thisWeek)
    THEN TimeRange(thisMonday + 7, thisMonday + 13)
  ELSE IF Includes(notes, Phrases.thisWeek)
    THEN TimeRange(thisMonday, thisSunday)
  ELSE IF Includes(notes, Phrases.thisMonth)
    THEN TimeRange(0, monthEnd)
  ELSE IF \/ "weekend" \in days \/ "this weekend" \in days
          \/ Includes(notes, Phrases.thisWeekend) \/ Includes(notes, Phrases.weekend)
    THEN TimeRange(thisMonday + 5, thisSunday)
  ELSE IF Includes(notes, Phrases.today) \/ Includes(notes, Phrases.tonight)
    THEN TimeRange(0, 0)
  ELSE IF Includes(notes, Phrases.tomorrow)
    THEN TimeRange(1, 1)
  ELSE IF Includes(notes, Phrases.week)
    THEN TimeRange(0, 7)
  ELSE NoTimeRange

InitRange ==
  /\ state = InitState
  /\ client = InitClient
  /\ \E n \in NoteTexts, d \in DayLists, w \in DaysOfWeek, e \in MonthEnds :
       last = [entry |-> "request", notes |-> n, days |-> d,
               dayOfWeek |-> w, monthEnd |-> e]
  /\ conflict = Null
  /\ turns = 0

\* one call of detectTimeRange
Detect ==
  /\ last.entry = "request"
  /\ last' = [entry |-> "detectTimeRange", notes |-> last.notes,
               days |-> last.days, dayOfWeek |-> last.dayOfWeek,
               monthEnd |-> last.monthEnd,
               result |-> detectTimeRangeOfText(last.notes, last.days,
                                                last.dayOfWeek, last.monthEnd)]
  /\ turns' = turns + 1
  /\ UNCHANGED <<state, client, conflict>>

NextRange == Detect

SpecRange == InitRange /\ [][NextRange]_vars

\* this week's Saturday and Sunday, in days from today
SaturdayOf(dayOfWeek) == (IF dayOfWeek = 0 THEN -6 ELSE 1 - dayOfWeek) + 5
SundayOf(dayOfWeek) == (IF dayOfWeek = 0 THEN -6 ELSE 1 - dayOfWeek) + 6

\* C35: for notes that are the phrase "this weekend", detectTimeRange
\* returns the range from this Saturday 00:00 to this Sunday 23:59, the
\* range it returns for a "weekend" day preference with empty notes.
C35_ThisWeekendIsWeekend ==
  (last.entry = "detectTimeRange" /\ toLowerCase(last.notes) = Notes.thisWeekend) =>
    /\ last.result = TimeRange(SaturdayOf(last.dayOfWeek), SundayOf(last.dayOfWeek))
    /\ last.result = detectTimeRangeOfText(Notes.none, {"weekend"},
                                           last.dayOfWeek, last.monthEnd)

----------------------------------------------------------------------------
\* Ordinal selection on its own: handleBookingConfirmation on the text of
\* the message and a presented list of a given length

\* the longest presented list tried, and the highest number asked for
MaxListed == 12

\* the words handleBookingConfirmation looks for
OrdinalWords ==
  [ first |-> <<"f", "i", "r", "s", "t">>,
    yes |-> <<"y", "e", "s">>,
    bookIt |-> <<"b", "o", "o", "k", " ", "i", "t">>,
    goAhead |-> <<"g", "o", " ", "a", "h", "e", "a", "d">>,
    confirm |-> <<"c", "o", "n", "f", "i", "r", "m">>,
    second |-> <<"s", "e", "c", "o", "n", "d">>,
    third |-> <<"t", "h", "i", "r", "d">>,
    fourth |-> <<"f", "o", "u", "r", "t", "h">>,
    fifth |-> <<"f", "i", "f", "t", "h">>,
    bookHash |-> <<"b", "o", "o", "k", " ", "#">> ]

\* messages without a number sign
Replies ==
  [ second |-> <<"t", "h", "e", " ", "s", "e", "c", "o", "n", "d", " ", "o", "n", "e">>,
    whichOnes |-> <<"w", "h", "i", "c", "h", " ", "o", "n", "e", "s", " ", "a", "r", "e", " ", "o", "u", "t", "d", "o", "o", "r", "s", "?">>,
    two |-> <<"2">>,
    bookIt |-> <<"B", "o", "o", "k", " ", "i", "t">> ]

\* the decimal numeral of n < 100
Numeral(n) == IF n < 10 THEN <<Digit(n)>> ELSE <<Digit(n \div 10), Digit(n % 10)>>

\* "#n" and the message "book #n"
Hash(n) == <<"#">> \o Numeral(n)
BookN(n) == OrdinalWords.bookHash \o Numeral(n)

OrdinalTexts ==
  {BookN(n) : n \in 1..MaxListed}
    \cup {Replies.second, Replies.whichOnes, Replies.two, Replies.bookIt}

\* selectedIndex: the chain of tests in the order of the source
selectedIndexOf(userMessage) ==
  LET message == toLowerCase(userMessage) IN
  IF \/ Includes(message, Hash(1)) \/ Includes(message, OrdinalWords.first)
     \/ message = Numeral(1) \/ Includes(message, OrdinalWords.yes)
     \/ Includes(message, OrdinalWords.bookIt) \/ Includes(message, OrdinalWords.goAhead)
     \/ Includes(message, OrdinalWords.confirm) THEN 0
  ELSE IF Includes(message, Hash(2)) \/ message = Numeral(2)
          \/ Includes(message, OrdinalWords.second) THEN 1
  ELSE IF Includes(message, Hash(3)) \/ message = Numeral(3)
          \/ Includes(message, OrdinalWords.third) THEN 2
  ELSE IF Includes(message, Hash(4)) \/ message = Numeral(4)
          \/ Includes(message, OrdinalWords.fourth) THEN 3
  ELSE IF Includes(message, Hash(5)) \/ message = Numeral(5)
          \/ Includes(message, OrdinalWords.fifth) THEN 4
  ELSE IF Includes(message, Hash(6)) \/ message = Numeral(6) THEN 5
  ELSE IF Includes(message, Hash(7)) \/ message = Numeral(7) THEN 6
  ELSE IF Includes(message, Hash(8)) \/ message = Numeral(8) THEN 7
  ELSE IF Includes(message, Hash(9)) \/ message = Numeral(9) THEN 8
  ELSE IF Includes(message, Hash(10)) \/ message = Numeral(10) THEN 9
  ELSE -1

\* the position in lastPresentedEvents handed to executeAndRespond (0: the
\* "Which one?" answer, nothing is handed over)
SelectedPosition(userMessage, listed) ==
  IF selectedIndexOf(userMessage) < 0 \/ selectedIndexOf(userMessage) >= listed
    THEN 0 ELSE selectedIndexOf(userMessage) + 1

InitOrdinal ==
  /\ state = InitState
  /\ client = InitClient
  /\ \E m \in OrdinalTexts, n \in 1..MaxListed :
       last = [entry |-> "request", message |-> m, listed |-> n]
  /\ conflict = Null
  /\ turns = 0

\* one call of handleBookingConfirmation, up to the call of executeAndRespond
Select ==
  /\ last.entry = "request"
  /\ last' = [entry |-> "handleBookingConfirmation", message |-> last.message,
               listed |-> last.listed,
               selectedIndex |-> selectedIndexOf(last.message),
               sent |-> SelectedPosition(last.message, last.listed)]
  /\ turns' = turns + 1
  /\ UNCHANGED <<state, client, conflict>>

NextOrdinal == Select

SpecOrdinal == InitOrdinal /\ [][NextOrdinal]_vars

\* the highest list position a message can name
OrdinalLimit == 10

\* C36: with a list of length L presented, "book #N" with N from 1 to the
\* smaller of L and 10 hands exactly the N-th entry of the list to the
\* gates; "book #N" with N above L, and a message without a recognised
\* ordinal, hand nothing to the gates.
C36_OrdinalSelectsNth ==
  last.entry = "handleBookingConfirmation" =>
    /\ \A n \in 1..MaxListed :
         last.message = BookN(n) =>
           IF n <= last.listed /\ n <= OrdinalLimit THEN last.sent = n
           ELSE n > last.listed => last.sent = 0
    /\ last.message = Replies.whichOnes => last.sent = 0

----------------------------------------------------------------------------
\* The conflict prompt and later attempts

\* the step is a book_anyway turn that reached the payment gate
BookAnywayPays == ChatTurn /\ last'.action = "book_anyway" /\ last'.gate

\* the step is a book_ticket or confirm_booking turn for another event than
\* the one held at the conflict prompt, and it passed the calendar gate: it
\* reached the payment gate
AttemptPassesGate ==
  /\ ChatTurn
  /\ last'.action \in {"book_ticket", "confirm_booking"}
  /\ last'.gate
  /\ state.pendingConflictBooking # Null
  /\ last'.event # state.pendingConflictBooking.event

\* C37: a book_anyway turn reaches the payment gate only for the event
\* whose conflict prompt was the response before it; a book_ticket or
\* confirm_booking turn that passes the calendar gate leaves
\* awaitingBookAnyway false and pendingConflictBooking null, so that a later
\* affirmative message cannot pay or mint for the earlier conflicted event.
C37_BookAnywayOnlyAfterPrompt ==
  /\ [][BookAnywayPays =>
          /\ last.response = "conflict"
          /\ last.event = last'.event]_vars
  /\ [][AttemptPassesGate =>
          /\ ~state'.awaitingBookAnyway
          /\ state'.pendingConflictBooking = Null]_vars

----------------------------------------------------------------------------
\* Two conversations on one server process: every turn of either page goes
\* through the same module-level session state

Conversations == {"A", "B"}

\* the two pages: A has a wallet and a connected calendar with its own
\* address known, B has neither or a calendar alone
InitShared ==
  /\ state = InitState
  /\ \E b \in PageLoads :
       client = [cv \in Conversations |->
                   IF cv = "A"
                     THEN [InitClient EXCEPT !.publicKey = "W1",
                                             !.calendarToken = "T1",
                                             !.attendeeEmails = {EmailA}]
                     ELSE b]
  /\ last = BlankOut
  /\ conflict = [by |-> None, list |-> None, pending |-> None, result |-> None]
  /\ turns = 0

\* the conversation whose turn created what the session holds after a turn
\* of cv: the presented list and intent, the pending conflict, the
\* BookingResult
Owners(own, cv, req, r) ==
  [ by |-> cv,
    list |-> IF r.st.lastPresentedEvents = <<>> THEN None
             ELSE IF r.out.action \in {"search_events", "book_ticket"}
                     \/ r.out.response = "event_list" THEN cv
             ELSE own.list,
    pending |-> IF r.st.pendingConflictBooking = Null THEN None
                ELSE IF r.out.response = "conflict" THEN cv
                ELSE own.pending,
    result |-> IF r.st.lastBookingResult = Null THEN None
               ELSE IF r.out.bookingResult # Null \/ req.cbr # Null THEN cv
               ELSE own.result ]

\* handleSend of one page: a whole turn of handleMessage; the turns of the
\* two pages alternate in any order
SendOf(cv, m) ==
  /\ client[cv].pending = Null
  /\ turns < MaxTurns
  /\ \E r \in handleMessage(state, m, ChatRequest(client[cv], m)) :
       /\ state' = r.st
       /\ last' = [r.out EXCEPT !.turn = turns + 1]
       /\ client' = [client EXCEPT ![cv] = AfterChat(client[cv], m, r.out)]
       /\ conflict' = Owners(conflict, cv, ChatRequest(client[cv], m), r)
  /\ turns' = turns + 1

NextShared == \E cv \in Conversations, m \in Messages : SendOf(cv, m)

SpecShared == InitShared /\ [][NextShared]_vars

\* C38: a confirm_booking turn that selects from the presented list, a
\* book_anyway turn that takes up a pending conflict and a provide_email
\* turn that sends a BookingResult use a list, a conflict (with its wallet)
\* and a result created by a turn of the same conversation.
C38_ConversationIsolation ==
  [][ChatTurn =>
       /\ (last'.action = "confirm_booking"
            /\ last'.response \notin {"which_one", "event_list"})
            => conflict.list = conflict'.by
       /\ (last'.action = "book_anyway" /\ last'.fromConflict)
            => /\ conflict.pending = conflict'.by
               /\ last'.gateWallet = last'.wallet
       /\ (last'.action = "provide_email" /\ last'.emailCall # Null
            /\ last'.cbr = Null)
            => conflict.result = conflict'.by]_vars

----------------------------------------------------------------------------
\* The email offer once closed

\* the last call closed the email offer: a decline while awaiting an email,
\* or a confirmation email that was sent
OfferClosed ==
  /\ last.entry = "handleMessage"
  /\ \/ last.msg = MNoThanks.id /\ ~last.llm /\ last.action = "general_question"
     \/ last.response = "email_sent"
  /\ ~state.awaitingEmail /\ state.lastBookingResult = Null

\* C39: once a decline or a sent email has cleared the email-pending state,
\* the next message (no mint in between) is classified with awaitingEmail
\* false and lastBookingResult null, although the page echoes the
\* BookingResult it stored, and no confirmation is emailed on that turn.
C39_ClosedOfferStaysClosed ==
  [][(NextTurn /\ OfferClosed) =>
       /\ ~RestoreFromClient(state, last'.cbr).awaitingEmail
       /\ RestoreFromClient(state, last'.cbr).lastBookingResult = Null
       /\ last'.emailCall = Null]_vars

----------------------------------------------------------------------------
\* The budget ceiling and the gates

\* the step is a chat turn that sent an event to the calendar and payment
\* gates
SendsToGates == ChatTurn /\ last'.event # None

\* C40: with a budget ceiling in the intent of a book_ticket turn, the event
\* this turn resolves by name, and the event the confirm_booking turn after
\* it selects by ordinal, is not hard-excluded by the matcher for that
\* intent when it is sent to the gates: its price is at most the ceiling.
C40_GatesWithinBudget ==
  /\ [][(SendsToGates /\ last'.action = "book_ticket" /\ state'.intent.hasBudget)
        => /\ ~HardExcluded(Catalog[last'.event], state'.intent)
           /\ Catalog[last'.event].price <= state'.intent.budget]_vars
  /\ [][(/\ SendsToGates /\ NextTurn
         /\ last.entry = "handleMessage" /\ last.action = "book_ticket"
         /\ state.intent # Null /\ state.intent.hasBudget
         /\ last'.action = "confirm_booking"
         /\ state'.intent = state.intent)
        => /\ ~HardExcluded(Catalog[last'.event], state.intent)
           /\ Catalog[last'.event].price <= state.intent.budget]_vars

====
